---- MODULE Spec2Model ----
(***************************************************************************)
(* Interview flow manager (src/modules/interview_flow.py) as a state       *)
(* machine: one InterviewFlowManager per browser session, all of them      *)
(* reading the custom question list of a meeting out of the one database   *)
(* singleton (src/modules/database.py, get_database).  The answers are     *)
(* scored by an NLPEvaluator (src/modules/nlp_evaluator.py) and kept in    *)
(* the sessions store, an InterviewDatabase (src/modules/database.py).     *)
(*                                                                         *)
(* A question dict is a record d; a Python object is a pair (oid, d):      *)
(* `==` on dicts compares d, `is` compares oid.  list.remove and `in`      *)
(* use `==`.                                                               *)
(***************************************************************************)
EXTENDS Integers, Sequences, FiniteSets, TLC

VARIABLES
    llm_model,        \* [Managers -> BOOLEAN]: self.llm_model is set
    current_session,  \* [Managers -> session record]: self.current_session
    custom_qs,        \* the list object meeting_data['custom_questions']
    created_qs,       \* what that list held when the meeting was created
    ret,              \* [Managers -> the last call made on the manager and its result]
    libraries,        \* which optional libraries nlp_evaluator.py could import
    evaluator,        \* the NLPEvaluator object: use_llm, and whether model is set
    evaluated,        \* the last call of evaluate_answer and its result
    database,         \* the InterviewDatabase object of the process: use_mongo, sessions
    files,            \* the sessions file (db_path) and its temporary file on disk
    collection,       \* the sessions collection of the MongoDB server
    called,           \* the last call made on the store and its result
    faults            \* how many writes and reads failed or ended with the process killed

flow_vars == <<llm_model, current_session, custom_qs, created_qs, ret>>

evaluator_vars == <<libraries, evaluator, evaluated>>

store_vars == <<database, files, collection, called, faults>>

vars == <<llm_model, current_session, custom_qs, created_qs, ret,
          libraries, evaluator, evaluated,
          database, files, collection, called, faults>>

----------------------------------------------------------------------------
\* Bounds

MaxCount == 3
MaxSessions == 2
MaxResponses == 2
MaxTranscript == 1
MaxFaults == 1

----------------------------------------------------------------------------
\* Values

Managers == {"A", "B"}
Modes == {"Technical", "HR"}
Difficulties == {"Beginner", "Intermediate", "Advanced"}
EvaluatedDifficulties == {"Beginner", "Advanced"}

Dict(text, has_kw, kws, custom) ==
    [question |-> text, has_keywords |-> has_kw, keywords |-> kws,
     custom_generated |-> custom]

Obj(src, m, gen, k, d) ==
    [oid |-> [src |-> src, m |-> m, gen |-> gen, k |-> k], d |-> d]

NoQuestion == [oid |-> [src |-> "none", m |-> "-", gen |-> 0, k |-> 0],
               d |-> Dict("", FALSE, {}, FALSE)]

\* The bank self.questions_bank after load_questions: the Beginner entries are
\* those of _get_default_questions, Technical/Intermediate is a file entry of
\* three questions, HR/Advanced a file entry that holds one question twice
\* (nothing in load_questions rejects it), and the other entries are absent
\* (.get(...) gives []).
questions_bank ==
    [key \in Modes \X Difficulties |->
        CASE key = <<"Technical", "Beginner">> ->
                <<Dict("What is a variable in programming?", TRUE,
                       {"variable", "data", "storage"}, FALSE)>>
          [] key = <<"Technical", "Intermediate">> ->
                <<Dict("Explain how a hash map works.", TRUE,
                       {"hash", "bucket", "collision"}, FALSE),
                  Dict("What is a REST API?", TRUE,
                       {"rest", "http", "api"}, FALSE),
                  Dict("How does Python manage memory?", TRUE,
                       {"python", "garbage", "reference"}, FALSE)>>
          [] key = <<"HR", "Beginner">> ->
                <<Dict("Tell me about yourself.", TRUE,
                       {"background", "experience", "skills"}, FALSE),
                  Dict("What are your strengths?", TRUE,
                       {"strength", "skill", "ability"}, FALSE)>>
          [] key = <<"HR", "Advanced">> ->
                <<Dict("Where do you see yourself in five years?", TRUE,
                       {"goal", "career", "growth"}, FALSE),
                  Dict("Where do you see yourself in five years?", TRUE,
                       {"goal", "career", "growth"}, FALSE)>>
          [] OTHER -> <<>>]

\* The custom question lists a moderator can create (app_enhanced.py, meeting
\* creation): dicts with question, expected_answer and custom_generated, and
\* no keywords; the same text and answer may be entered twice.
CustomQ1 == Dict("Describe your final-year project.", FALSE, {}, TRUE)
CustomQ2 == Dict("Why this course?", FALSE, {}, TRUE)

MeetingObj(k, d) == Obj("meeting", "-", 0, k, d)

MeetingLists ==
    { <<>>,
      <<MeetingObj(1, CustomQ1)>>,
      <<MeetingObj(1, CustomQ1), MeetingObj(2, CustomQ2)>>,
      <<MeetingObj(1, CustomQ1), MeetingObj(2, CustomQ1)>> }

NoAnswer == "None"

None == [active |-> FALSE, mode |-> "", difficulty |-> "", num_questions |-> 0,
         current_index |-> 0, questions_asked |-> <<>>,
         available_questions |-> <<>>, pool_ref |-> "own",
         follow_up_needed |-> FALSE, follow_up_reason |-> "unset",
         last_answer |-> NoAnswer, copies |-> 0, given |-> <<>>, tailored |-> FALSE]

NoEval == [completeness |-> 0, overall_score |-> 0]

\* llm tells what the call to the external model made by the operation gave;
\* only start_session records it.
NotAttempted == "not attempted"

Ret(op, res, q, fu, ev) == [op |-> op, res |-> res, q |-> q, fu |-> fu, ev |-> ev,
                            llm |-> NotAttempted]

NoFollowUp == [question |-> "", original_question |-> "", keywords |-> {}]

----------------------------------------------------------------------------
\* Helpers on lists

Range(s) == {s[i] : i \in 1..Len(s)}

RemoveAt(s, i) == [j \in 1..(Len(s) - 1) |-> IF j < i THEN s[j] ELSE s[j + 1]]

\* list.index(x) by ==, for a list that holds an element equal to x
FirstEqual(s, x) == CHOOSE i \in 1..Len(s) :
                        /\ s[i].d = x.d
                        /\ \A j \in 1..(i - 1) : s[j].d # x.d

\* list.pop() in place of list.remove(x): drops the last element
list_pop(s, x) == SubSeq(s, 1, Len(s) - 1)

\* list.remove(x): drops the first element equal (==) to x
list_remove(s, x) == RemoveAt(s, FirstEqual(s, x))

----------------------------------------------------------------------------
\* Pool construction (start_session)

\* _get_questions_for_session: a fresh copy of every dict of the bank entry;
\* gen numbers the copies made for one session, so that two copies of the same
\* bank dict are two objects.
\* Mutant: the copies are taken from the Intermediate entry of the mode.
_get_questions_for_session_intermediate(m, mode, difficulty, gen) ==
    LET questions == questions_bank[<<mode, "Intermediate">>]
    IN  [k \in 1..Len(questions) |-> Obj("bank", m, gen, k, questions[k])]

_get_questions_for_session(m, mode, difficulty, gen) ==
    LET questions == questions_bank[<<mode, difficulty>>]
    IN  [k \in 1..Len(questions) |-> Obj("bank", m, gen, k, questions[k])]

\* The resume and job-description texts a session is started with.
ResumeTexts == {"", "python developer"}
JobDescriptions == {""}

\* re.findall of the three tech_patterns on the lower-cased texts
found_skills(resume_text, job_description) ==
    IF resume_text = "python developer" THEN {"python"} ELSE {}

\* _generate_resume_based_questions on those texts: one question per found
\* skill for Technical and Mixed, phrased by difficulty; the texts name no
\* company and the job description none of lead/manage/collaborate.
_generate_resume_based_questions(m, resume_text, job_description, mode, difficulty) ==
    IF found_skills(resume_text, job_description) # {} /\ mode \in {"Technical", "Mixed"}
    THEN IF difficulty = "Beginner"
         THEN <<Obj("template", m, 0, 1,
                    Dict("Can you explain your experience with Python?", TRUE,
                         {"python", "experience", "knowledge", "use"}, TRUE))>>
         ELSE IF difficulty = "Intermediate"
         THEN <<Obj("template", m, 0, 1,
                    Dict("Tell me about a specific project where you used Python. What challenges did you face?",
                         TRUE,
                         {"python", "project", "challenge", "solution", "implementation"},
                         TRUE))>>
         ELSE <<Obj("template", m, 0, 1,
                    Dict("How would you architect a scalable solution using Python? What trade-offs would you consider?",
                         TRUE,
                         {"python", "architecture", "scalability", "trade-off", "design"},
                         TRUE))>>
    ELSE <<>>

\* What llm_model.generate_content followed by json.loads can give
\* _generate_questions_with_llm: an exception, an empty list, or questions,
\* each tagged custom_generated.
LLMOutcomes == {"raise", "empty", "one", "two"}

\* Mutant: the questions parsed before the call failed are kept.
_generate_questions_with_llm_keeps_partial(m, outcome) ==
    LET g1 == Obj("llm", m, 0, 1,
                  Dict("Describe a Python service you built.", TRUE,
                       {"python", "service"}, TRUE))
    IN  CASE outcome \in {"one", "raise"} -> <<g1>>
          [] outcome = "two" -> <<g1, g1>>
          [] OTHER -> <<>>

_generate_questions_with_llm(m, outcome) ==
    LET g1 == Obj("llm", m, 0, 1,
                  Dict("Describe a Python service you built.", TRUE,
                       {"python", "service"}, TRUE))
        g2 == Obj("llm", m, 0, 2,
                  Dict("How do you test your code?", TRUE, {"test", "unit"}, TRUE))
    IN  CASE outcome = "one" -> <<g1>>
          [] outcome = "two" -> <<g1, g2>>
          [] OTHER -> <<>>

\* score_question: the number of target keywords among the question's keywords
score_question(q, keyword_set) == Cardinality(keyword_set \cap q.d.keywords)

RECURSIVE Orders(_)
Orders(S) == IF S = {} THEN {<<>>}
             ELSE UNION {{<<x>> \o p : p \in Orders(S \ {x})} : x \in S}

\* sorted(available, key=(score, random.random()), reverse=True): every order
\* of the list with the scores descending
sorted_by_score(available, keyword_set) ==
    { [i \in 1..Len(available) |-> available[p[i]]] :
        p \in { o \in Orders(1..Len(available)) :
                  \A i, j \in 1..Len(available) :
                      i < j => score_question(available[o[i]], keyword_set)
                                 >= score_question(available[o[j]], keyword_set) } }

TargetKeywords == {{}, {"python"}}

\* The pools the non-forced branch of start_session can build (lines 94-129)
dynamic_pools(m, mode, difficulty, target_keywords, resume_text, job_description, generated) ==
    IF generated # <<>>
    THEN {generated}
    ELSE LET bank == _get_questions_for_session(m, mode, difficulty, 0)
             custom_generated ==
                 IF resume_text # "" \/ job_description # ""
                 THEN _generate_resume_based_questions(m, resume_text, job_description,
                                                       mode, difficulty)
                 ELSE <<>>
             available == custom_generated \o bank
         IN  IF target_keywords # {}
             THEN sorted_by_score(available, target_keywords)
             ELSE {available}

\* The session dict of lines 131-140.  pool_ref, copies, given and tailored are
\* no keys of it: pool_ref tells which list object available_questions is,
\* copies counts the bank copies made, given is the forced list as it was
\* passed, tailored tells that a resume or job description was passed.
new_session(mode, difficulty, num_questions, available, pool_ref, copies, given, tailored) ==
    [active |-> TRUE, mode |-> mode, difficulty |-> difficulty,
     num_questions |-> num_questions, current_index |-> 0,
     questions_asked |-> <<>>, available_questions |-> available,
     pool_ref |-> pool_ref, follow_up_needed |-> FALSE,
     follow_up_reason |-> "unset", last_answer |-> NoAnswer,
     copies |-> copies, given |-> given, tailored |-> tailored]

\* start_session.  custom_questions_list is "meeting" when the caller passes
\* the meeting's list object and "None" otherwise (an empty list is falsy, as
\* None is).  api_key is TRUE when a key is passed and configure_llm succeeds;
\* when the library is missing or the configuration raises, llm_model is left
\* as it was, as with no key.
start_session(m, mode, difficulty, num_questions, target_keywords, resume_text, job_description, custom_questions_list, api_key) ==
    LET model == llm_model[m] \/ api_key
        forced == custom_questions_list = "meeting" /\ custom_qs # <<>>
        try_llm == ~forced /\ model /\ (resume_text # "" \/ job_description # "")
        returned == Ret("start_session", "session", NoQuestion, NoFollowUp, NoEval)
    IN  /\ llm_model' = [llm_model EXCEPT ![m] = model]
        /\ UNCHANGED <<custom_qs, created_qs>>
        /\ IF forced
           THEN /\ ret' = [ret EXCEPT ![m] = returned]
                /\ current_session' = [current_session EXCEPT ![m] =
                       new_session(mode, difficulty, Len(custom_qs), <<>>, "caller",
                                   0, custom_qs, FALSE)]
           ELSE \E outcome \in (IF try_llm THEN LLMOutcomes ELSE {NotAttempted}) :
                \E available \in dynamic_pools(m, mode, difficulty, target_keywords,
                                               resume_text, job_description,
                                               _generate_questions_with_llm(m, outcome)) :
                    /\ ret' = [ret EXCEPT ![m] = [returned EXCEPT !.llm = outcome]]
                    /\ current_session' = [current_session EXCEPT ![m] =
                        new_session(mode, difficulty, num_questions, available, "own",
                                    IF _generate_questions_with_llm(m, outcome) = <<>>
                                    THEN 1 ELSE 0,
                                    <<>>, resume_text # "" \/ job_description # "")]

----------------------------------------------------------------------------
\* get_next_question

\* self.current_session['available_questions']: the session's own list, or the
\* caller's list object when start_session was given one (line 90 binds the
\* argument itself, without a copy)
available_questions(m) ==
    IF current_session[m].pool_ref = "caller"
    THEN custom_qs
    ELSE current_session[m].available_questions

\* The follow_ups table of _generate_follow_up; a reason that is no key of the
\* table ('generic', when no reason was ever recorded) takes the 'incomplete'
\* list.
follow_ups(reason) ==
    IF reason = "too_short"
    THEN {"That's interesting. Can you explain further?",
          "Could you expand on that idea?",
          "What else can you tell me about this?"}
    ELSE {"Can you elaborate more on that?",
          "Could you provide more details about your answer?",
          "Can you give a specific example to illustrate your point?"}

FollowUp(text, last_question, kws) ==
    [res |-> "follow_up",
     fu |-> [question |-> text, original_question |-> last_question.d.question,
             keywords |-> kws]]

\* _generate_follow_up: the set of its outcomes.  res is "None" (nothing asked
\* yet), "follow_up", or "raise": the template path reads
\* last_question['keywords'], a KeyError for a dict without that key.  The
\* external model is tried when it is configured and last_answer is truthy;
\* when it raises, the template path runs.
_generate_follow_up(m) ==
    LET cs == current_session[m]
        last_question == cs.questions_asked[Len(cs.questions_asked)]
        template ==
            IF last_question.d.has_keywords
            THEN {FollowUp(t, last_question, last_question.d.keywords) :
                    t \in follow_ups(cs.follow_up_reason)}
            ELSE {[res |-> "raise", fu |-> NoFollowUp]}
        llm == {FollowUp("<text of the external model>", last_question,
                         last_question.d.keywords)}
    IN  IF cs.questions_asked = <<>>
        THEN {[res |-> "None", fu |-> NoFollowUp]}
        ELSE IF llm_model[m] /\ cs.last_answer \notin {NoAnswer, ""}
             THEN llm \cup template
             ELSE template

\* the flag left set
serve_follow_up_keep_flag(cs) == cs

\* line 159: the flag is cleared when a follow-up is served
serve_follow_up(cs) == [cs EXCEPT !.follow_up_needed = FALSE]

\* > in place of >=
session_complete_off_by_one(cs) == cs.current_index > cs.num_questions

\* line 163
session_complete(cs) == cs.current_index >= cs.num_questions

\* the append without the increment
record_question_no_increment(cs, question) ==
    [cs EXCEPT !.questions_asked = Append(@, question)]

\* lines 186-187
record_question(cs, question) ==
    [cs EXCEPT !.questions_asked = Append(@, question),
               !.current_index = @ + 1]

\* lines 166-189: the draw, for a session that is not complete
draw_question(m) ==
    LET cs == current_session[m]
        recycle == available_questions(m) = <<>>
        available == IF recycle
                     THEN _get_questions_for_session(m, cs.mode, cs.difficulty, cs.copies)
                     ELSE available_questions(m)
        \* after a recycle the session holds the fresh list, also when it is empty
        bound == IF recycle
                 THEN [cs EXCEPT !.pool_ref = "own", !.available_questions = available,
                                 !.copies = IF available = <<>> THEN @ ELSE @ + 1]
                 ELSE cs
    IN  IF available = <<>>
        THEN /\ current_session' = [current_session EXCEPT ![m] = bound]
             /\ ret' = [ret EXCEPT ![m] = Ret("get_next_question", "None", NoQuestion,
                                               NoFollowUp, NoEval)]
             /\ UNCHANGED custom_qs
        ELSE \E i \in 1..Len(available) :
                LET question == available[i]
                    rest == list_remove(available, question)
                IN  /\ IF bound.pool_ref = "caller"
                       THEN /\ custom_qs' = rest
                            /\ current_session' = [current_session EXCEPT ![m] =
                                   record_question(bound, question)]
                       ELSE /\ UNCHANGED custom_qs
                            /\ current_session' = [current_session EXCEPT ![m] =
                                   record_question([bound EXCEPT !.available_questions = rest],
                                                   question)]
                    /\ ret' = [ret EXCEPT ![m] = Ret("get_next_question", "question",
                                                      question, NoFollowUp, NoEval)]

get_next_question(m) ==
    LET cs == current_session[m]
    IN  /\ UNCHANGED <<llm_model, created_qs>>
        /\ IF ~cs.active
           THEN /\ ret' = [ret EXCEPT ![m] = Ret("get_next_question", "None", NoQuestion,
                                                  NoFollowUp, NoEval)]
                /\ UNCHANGED <<current_session, custom_qs>>
           ELSE \E follow_up \in (IF cs.follow_up_needed
                                  THEN _generate_follow_up(m)
                                  ELSE {[res |-> "None", fu |-> NoFollowUp]}) :
                   CASE follow_up.res = "follow_up" ->
                          /\ current_session' = [current_session EXCEPT ![m] =
                                 serve_follow_up(cs)]
                          /\ ret' = [ret EXCEPT ![m] = Ret("get_next_question", "follow_up",
                                                            NoQuestion, follow_up.fu, NoEval)]
                          /\ UNCHANGED custom_qs
                     [] follow_up.res = "raise" ->
                          /\ ret' = [ret EXCEPT ![m] = Ret("get_next_question", "raise",
                                                            NoQuestion, NoFollowUp, NoEval)]
                          /\ UNCHANGED <<current_session, custom_qs>>
                     [] OTHER ->
                          IF session_complete(cs)
                          THEN /\ ret' = [ret EXCEPT ![m] = Ret("get_next_question", "None",
                                                                 NoQuestion, NoFollowUp, NoEval)]
                               /\ UNCHANGED <<current_session, custom_qs>>
                          ELSE draw_question(m)

----------------------------------------------------------------------------
\* should_ask_follow_up

Evaluations == [completeness : {59, 60}, overall_score : {49, 50}]

\* the score test made before the completeness test
follow_up_trigger_score_first(evaluation) ==
    IF evaluation.overall_score < 50 THEN "too_short"
    ELSE IF evaluation.completeness < 60 THEN "incomplete"
    ELSE "none"

\* lines 205-216: the reason recorded, "none" when the call returns False
follow_up_trigger(evaluation) ==
    IF evaluation.completeness < 60 THEN "incomplete"
    ELSE IF evaluation.overall_score < 50 THEN "too_short"
    ELSE "none"

\* a call that returns False clears the flag
should_ask_follow_up_clears_flag(m, evaluation) ==
    LET reason == follow_up_trigger(evaluation)
        cs == current_session[m]
    IN  /\ UNCHANGED <<llm_model, custom_qs, created_qs>>
        /\ IF ~cs.active
           THEN /\ ret' = [ret EXCEPT ![m] =
                       Ret("should_ask_follow_up",
                           IF reason = "none" THEN "False" ELSE "raise",
                           NoQuestion, NoFollowUp, evaluation)]
                /\ UNCHANGED current_session
           ELSE /\ ret' = [ret EXCEPT ![m] =
                       Ret("should_ask_follow_up",
                           IF reason = "none" THEN "False" ELSE "True",
                           NoQuestion, NoFollowUp, evaluation)]
                /\ current_session' = [current_session EXCEPT ![m] =
                       IF reason = "none"
                       THEN [cs EXCEPT !.follow_up_needed = FALSE]
                       ELSE [cs EXCEPT !.follow_up_needed = TRUE,
                                       !.follow_up_reason = reason]]

\* With no session (current_session is None) the write of line 206 or 212
\* raises TypeError; a call that reaches line 216 touches no session.
should_ask_follow_up(m, evaluation) ==
    LET reason == follow_up_trigger(evaluation)
        cs == current_session[m]
    IN  /\ UNCHANGED <<llm_model, custom_qs, created_qs>>
        /\ IF reason = "none"
           THEN /\ ret' = [ret EXCEPT ![m] = Ret("should_ask_follow_up", "False",
                                                  NoQuestion, NoFollowUp, evaluation)]
                /\ UNCHANGED current_session
           ELSE IF ~cs.active
           THEN /\ ret' = [ret EXCEPT ![m] = Ret("should_ask_follow_up", "raise",
                                                  NoQuestion, NoFollowUp, evaluation)]
                /\ UNCHANGED current_session
           ELSE /\ ret' = [ret EXCEPT ![m] = Ret("should_ask_follow_up", "True",
                                                  NoQuestion, NoFollowUp, evaluation)]
                /\ current_session' = [current_session EXCEPT ![m] =
                       [cs EXCEPT !.follow_up_needed = TRUE,
                                  !.follow_up_reason = reason]]

----------------------------------------------------------------------------
\* The other writers of the session

Answers == {"I would start with the requirements."}

\* app_enhanced.py _process_answer, step 4: the answer is stored on the
\* session for the follow-up prompt
record_answer(m, user_answer) ==
    /\ current_session[m].active
    /\ current_session' = [current_session EXCEPT ![m].last_answer = user_answer]
    /\ UNCHANGED <<llm_model, custom_qs, created_qs, ret>>

end_session(m) ==
    /\ current_session' = [current_session EXCEPT ![m] = None]
    /\ ret' = [ret EXCEPT ![m] = Ret("end_session", "None", NoQuestion, NoFollowUp, NoEval)]
    /\ UNCHANGED <<llm_model, custom_qs, created_qs>>

----------------------------------------------------------------------------
\* get_progress

\* Mutant: the percentage counts the question being answered as done.
get_progress_one_based(m) ==
    LET cs == current_session[m]
    IN  IF ~cs.active THEN [res |-> "inactive"]
        ELSE IF cs.num_questions = 0 THEN [res |-> "ZeroDivisionError"]
        ELSE [res |-> "progress", active |-> TRUE,
              current_question |-> cs.current_index,
              total_questions |-> cs.num_questions,
              progress_percentage |-> [n |-> (cs.current_index + 1) * 100,
                                       d |-> cs.num_questions],
              mode |-> cs.mode, difficulty |-> cs.difficulty]

\* get_progress reads the session and changes nothing.  The quotient
\* current_index / num_questions * 100 is kept as the fraction n / d; the
\* division raises when num_questions is 0.
get_progress(m) ==
    LET cs == current_session[m]
    IN  IF ~cs.active THEN [res |-> "inactive"]
        ELSE IF cs.num_questions = 0 THEN [res |-> "ZeroDivisionError"]
        ELSE [res |-> "progress", active |-> TRUE,
              current_question |-> cs.current_index,
              total_questions |-> cs.num_questions,
              progress_percentage |-> [n |-> cs.current_index * 100,
                                       d |-> cs.num_questions],
              mode |-> cs.mode, difficulty |-> cs.difficulty]

----------------------------------------------------------------------------
\* Answer evaluation (src/modules/nlp_evaluator.py)
\*
\* A text is the sequence of its whitespace-separated tokens, as str.split
\* gives them; the texts are joined by single blanks.  Scores are floats in the
\* code; here a sub-score is an integer number of hundredths of a point, the
\* weighted sum a number of 1/10000 of a point, and a reported score
\* (round(x, 1)) a number of tenths.  The texts below give quotients that are
\* whole in these units.

\* What the code reads off a token: its lower-case form, whether it ends a
\* sentence (ends in one of . ! ?), the \w+ words of its lower-case form, and
\* which of the words the evaluator searches for are a substring, a prefix and
\* a suffix of its lower-case form.
Token(lower, ends, words, subs, pre, suf) ==
    [lower |-> lower, ends |-> ends, words |-> words, subs |-> subs, pre |-> pre,
     suf |-> suf]

Lexicon ==
    "A" :> Token("a", FALSE, {"a"}, {}, {}, {})
    @@ "Because" :> Token("because", FALSE, {"because"}, {"be", "because"},
           {"be", "because"}, {"because"})
    @@ "For" :> Token("for", FALSE, {"for"}, {"for"}, {"for"}, {"for"})
    @@ "Good" :> Token("good", FALSE, {"good"}, {}, {}, {})
    @@ "I" :> Token("i", FALSE, {"i"}, {"i"}, {"i"}, {"i"})
    @@ "It" :> Token("it", FALSE, {"it"}, {"i"}, {"i"}, {})
    @@ "Maybe" :> Token("maybe", FALSE, {"maybe"}, {"be", "maybe"}, {"maybe"},
           {"be", "maybe"})
    @@ "No" :> Token("no", FALSE, {"no"}, {"no"}, {"no"}, {"no"})
    @@ "Tell" :> Token("tell", FALSE, {"tell"}, {"tell"}, {"tell"}, {"tell"})
    @@ "What" :> Token("what", FALSE, {"what"}, {}, {}, {})
    @@ "Why" :> Token("why", FALSE, {"why"}, {}, {}, {})
    @@ "You" :> Token("you", FALSE, {"you"}, {}, {}, {})
    @@ "a" :> Token("a", FALSE, {"a"}, {}, {}, {})
    @@ "about" :> Token("about", FALSE, {"about"}, {"about"}, {"about"},
           {"about"})
    @@ "adds" :> Token("adds", FALSE, {"adds"}, {}, {}, {})
    @@ "am" :> Token("am", FALSE, {"am"}, {"am"}, {"am"}, {"am"})
    @@ "and" :> Token("and", FALSE, {"and"}, {}, {}, {})
    @@ "assign" :> Token("assign", FALSE, {"assign"}, {"as", "i"}, {"as"}, {})
    @@ "back" :> Token("back", FALSE, {"back"}, {}, {}, {})
    @@ "background" :> Token("background", FALSE, {"background"},
           {"background"}, {"background"}, {"background"})
    @@ "basics" :> Token("basics", FALSE, {"basics"}, {"as", "basics", "i"},
           {"basics"}, {"basics"})
    @@ "be" :> Token("be", FALSE, {"be"}, {"be"}, {"be"}, {"be"})
    @@ "because" :> Token("because", FALSE, {"because"}, {"be", "because"},
           {"be", "because"}, {"because"})
    @@ "box," :> Token("box,", FALSE, {"box"}, {}, {}, {})
    @@ "clue," :> Token("clue,", FALSE, {"clue"}, {"clue"}, {"clue"}, {})
    @@ "code" :> Token("code", FALSE, {"code"}, {}, {}, {})
    @@ "could" :> Token("could", FALSE, {"could"}, {"could"}, {"could"},
           {"could"})
    @@ "counter" :> Token("counter", FALSE, {"counter"}, {}, {}, {})
    @@ "data" :> Token("data", FALSE, {"data"}, {"data"}, {"data"}, {"data"})
    @@ "data," :> Token("data,", FALSE, {"data"}, {"data"}, {"data"}, {})
    @@ "data." :> Token("data.", TRUE, {"data"}, {"data"}, {"data"}, {})
    @@ "decides" :> Token("decides", FALSE, {"decides"}, {"i"}, {}, {})
    @@ "declare" :> Token("declare", FALSE, {"declare"}, {}, {}, {})
    @@ "do" :> Token("do", FALSE, {"do"}, {}, {}, {})
    @@ "don't" :> Token("don't", FALSE, {"don", "t"}, {"don't"}, {"don't"},
           {"don't"})
    @@ "each" :> Token("each", FALSE, {"each"}, {}, {}, {})
    @@ "easier" :> Token("easier", FALSE, {"easier"}, {"as", "i"}, {}, {})
    @@ "example" :> Token("example", FALSE, {"example"}, {"am", "example"},
           {"example"}, {"example"})
    @@ "experience" :> Token("experience", FALSE, {"experience"},
           {"experience", "i"}, {"experience"}, {"experience"})
    @@ "familiar" :> Token("familiar", FALSE, {"familiar"}, {"am", "familiar",
           "i"}, {"familiar"}, {"familiar"})
    @@ "fits" :> Token("fits", FALSE, {"fits"}, {"i"}, {}, {})
    @@ "follow," :> Token("follow,", FALSE, {"follow"}, {}, {}, {})
    @@ "for" :> Token("for", FALSE, {"for"}, {"for"}, {"for"}, {"for"})
    @@ "guess." :> Token("guess.", TRUE, {"guess"}, {"guess"}, {"guess"}, {})
    @@ "holds" :> Token("holds", FALSE, {"holds"}, {}, {}, {})
    @@ "in" :> Token("in", FALSE, {"in"}, {"i", "in"}, {"i", "in"}, {"in"})
    @@ "is" :> Token("is", FALSE, {"is"}, {"i"}, {"i"}, {})
    @@ "it" :> Token("it", FALSE, {"it"}, {"i"}, {"i"}, {})
    @@ "job?" :> Token("job?", TRUE, {"job"}, {"job"}, {"job"}, {})
    @@ "keeps" :> Token("keeps", FALSE, {"keeps"}, {}, {}, {})
    @@ "know" :> Token("know", FALSE, {"know"}, {"know", "no"}, {"know"},
           {"know"})
    @@ "later." :> Token("later.", TRUE, {"later"}, {}, {}, {})
    @@ "location" :> Token("location", FALSE, {"location"}, {"i"}, {}, {})
    @@ "loop" :> Token("loop", FALSE, {"loop"}, {}, {}, {})
    @@ "make" :> Token("make", FALSE, {"make"}, {}, {}, {})
    @@ "me" :> Token("me", FALSE, {"me"}, {"me"}, {"me"}, {"me"})
    @@ "my" :> Token("my", FALSE, {"my"}, {}, {}, {})
    @@ "name" :> Token("name", FALSE, {"name"}, {"am", "me"}, {}, {"me"})
    @@ "named" :> Token("named", FALSE, {"named"}, {"am", "me", "named"},
           {"named"}, {"named"})
    @@ "names" :> Token("names", FALSE, {"names"}, {"am", "me"}, {}, {})
    @@ "not" :> Token("not", FALSE, {"not"}, {"no", "not"}, {"no", "not"},
           {"not"})
    @@ "number" :> Token("number", FALSE, {"number"}, {"be"}, {}, {})
    @@ "of" :> Token("of", FALSE, {"of"}, {}, {}, {})
    @@ "often" :> Token("often", FALSE, {"often"}, {}, {}, {})
    @@ "one." :> Token("one.", TRUE, {"one"}, {}, {}, {})
    @@ "pass" :> Token("pass", FALSE, {"pass"}, {"as"}, {}, {})
    @@ "passes" :> Token("passes", FALSE, {"passes"}, {"as"}, {}, {})
    @@ "possibly" :> Token("possibly", FALSE, {"possibly"}, {"i", "possibly"},
           {"possibly"}, {"possibly"})
    @@ "program" :> Token("program", FALSE, {"program"}, {"am"}, {}, {"am"})
    @@ "programming" :> Token("programming", FALSE, {"programming"}, {"am",
           "i", "in", "programming"}, {"programming"}, {"programming"})
    @@ "programming?" :> Token("programming?", TRUE, {"programming"}, {"am",
           "i", "in", "programming"}, {"programming"}, {})
    @@ "read" :> Token("read", FALSE, {"read"}, {}, {}, {})
    @@ "runs." :> Token("runs.", TRUE, {"runs"}, {}, {}, {})
    @@ "scope" :> Token("scope", FALSE, {"scope"}, {}, {}, {})
    @@ "skills" :> Token("skills", FALSE, {"skills"}, {"i", "skills"},
           {"skills"}, {"skills"})
    @@ "skills." :> Token("skills.", TRUE, {"skills"}, {"i", "skills"},
           {"skills"}, {})
    @@ "something" :> Token("something", FALSE, {"something"}, {"i", "in",
           "me"}, {}, {})
    @@ "sorry." :> Token("sorry.", TRUE, {"sorry"}, {}, {}, {})
    @@ "storage" :> Token("storage", FALSE, {"storage"}, {"storage"},
           {"storage"}, {"storage"})
    @@ "stores" :> Token("stores", FALSE, {"stores"}, {}, {}, {})
    @@ "that" :> Token("that", FALSE, {"that"}, {}, {}, {})
    @@ "the" :> Token("the", FALSE, {"the"}, {}, {}, {})
    @@ "them" :> Token("them", FALSE, {"them"}, {}, {}, {})
    @@ "then" :> Token("then", FALSE, {"then"}, {}, {}, {})
    @@ "think" :> Token("think", FALSE, {"think"}, {"i", "in", "think"},
           {"think"}, {"think"})
    @@ "this" :> Token("this", FALSE, {"this"}, {"i", "this"}, {"this"},
           {"this"})
    @@ "to" :> Token("to", FALSE, {"to"}, {}, {}, {})
    @@ "type" :> Token("type", FALSE, {"type"}, {"type"}, {"type"}, {"type"})
    @@ "type," :> Token("type,", FALSE, {"type"}, {"type"}, {"type"}, {})
    @@ "values" :> Token("values", FALSE, {"values"}, {}, {}, {})
    @@ "variable" :> Token("variable", FALSE, {"variable"}, {"i", "variable"},
           {"variable"}, {"variable"})
    @@ "visible." :> Token("visible.", TRUE, {"visible"}, {"i"}, {}, {})
    @@ "want" :> Token("want", FALSE, {"want"}, {"want"}, {"want"}, {"want"})
    @@ "what" :> Token("what", FALSE, {"what"}, {}, {}, {})
    @@ "where" :> Token("where", FALSE, {"where"}, {}, {}, {})
    @@ "while" :> Token("while", FALSE, {"while"}, {"i"}, {}, {})
    @@ "with" :> Token("with", FALSE, {"with"}, {"i"}, {}, {})
    @@ "you" :> Token("you", FALSE, {"you"}, {}, {}, {})
    @@ "yourself." :> Token("yourself.", TRUE, {"yourself"}, {"yourself"},
           {"yourself"}, {})

\* The answers evaluated.  AnswerEmpty stands for "" and for a text of blanks
\* only: both split into no token and strip to "".
AnswerEmpty ==
    <<>>

AnswerDontKnow ==
    <<"I", "don't", "know">>

AnswerNotFamiliar ==
    <<"I", "am", "not", "familiar", "with", "what", "a", "variable", "in",
    "programming", "is">>

AnswerNoClue ==
    <<"No", "clue,", "sorry.">>

AnswerShort ==
    <<"It", "stores", "data.">>

AnswerIdeal ==
    <<"A", "variable", "is", "a", "named", "storage", "location", "for",
    "data.">>

AnswerHedged ==
    <<"Maybe", "it", "is", "a", "box,", "I", "think", "it", "could", "be",
    "something", "that", "possibly", "holds", "data,", "I", "guess.">>

AnswerRepeated ==
    <<"data", "data", "data", "data", "data", "data">>

AnswerDetailed ==
    <<"A", "variable", "in", "programming", "is", "a", "named", "storage",
    "location", "that", "holds", "data", "while", "the", "program", "runs.",
    "You", "declare", "it", "with", "a", "name", "and", "often", "a", "type,",
    "then", "assign", "values", "and", "read", "them", "back", "later.",
    "For", "example", "a", "counter", "keeps", "the", "number", "of", "loop",
    "passes", "because", "each", "pass", "adds", "one.", "Good", "names",
    "make", "code", "easier", "to", "follow,", "and", "scope", "decides",
    "where", "each", "name", "is", "visible.">>

AnswerBoundary ==
    <<"A", "variable", "in", "programming", "is", "a", "named", "storage",
    "location", "that", "holds", "data", "while", "the", "program", "runs.",
    "You", "declare", "it", "with", "a", "name", "and", "often", "a", "type,",
    "then", "assign", "values", "and", "read", "them", "back", "later.",
    "For", "example", "a", "counter", "keeps", "the", "number", "of", "loop",
    "passes", "because", "each", "pass", "adds", "one.", "Good", "names",
    "make">>

UserAnswers ==
    {AnswerEmpty, AnswerDontKnow, AnswerNotFamiliar, AnswerNoClue, AnswerShort,
     AnswerIdeal, AnswerHedged, AnswerRepeated, AnswerDetailed, AnswerBoundary}

\* The questions evaluated against: the two Beginner questions of
\* _get_default_questions, a question as _generate_questions_with_llm asks the
\* external model for (with an ideal_answer), and a meeting question, which
\* has neither keywords nor a duration.  has is the set of the dict's keys
\* besides 'question'; a technical concept is kept as its parts between the
\* underscores.
QuestionBankTechnical ==
    [question |-> <<"What", "is", "a", "variable", "in", "programming?">>,
     has |-> {"expected_duration", "keywords", "technical_concepts"},
     keywords |-> <<<<"variable">>, <<"data">>, <<"storage">>>>,
     expected_duration |-> 60,
     technical_concepts |-> <<<<"programming", "basics">>>>,
     ideal_answer |-> <<>>]

QuestionBankHR ==
    [question |-> <<"Tell", "me", "about", "yourself.">>,
     has |-> {"expected_duration", "keywords"},
     keywords |-> <<<<"background">>, <<"experience">>, <<"skills">>>>,
     expected_duration |-> 90,
     technical_concepts |-> <<>>,
     ideal_answer |-> <<>>]

QuestionGenerated ==
    [question |-> <<"What", "is", "a", "variable", "in", "programming?">>,
     has |-> {"custom_generated", "expected_duration", "ideal_answer", "keywords"},
     keywords |-> <<<<"variable">>, <<"named", "storage">>, <<"data", "type">>>>,
     expected_duration |-> 60,
     technical_concepts |-> <<>>,
     ideal_answer |-> <<"A", "variable", "is", "a", "named", "storage", "location", "for", "data.">>]

QuestionMeeting ==
    [question |-> <<"Why", "do", "you", "want", "this", "job?">>,
     has |-> {"custom_generated", "expected_answer"},
     keywords |-> <<>>,
     expected_duration |-> 0,
     technical_concepts |-> <<>>,
     ideal_answer |-> <<>>]

Questions == {QuestionBankTechnical, QuestionBankHR, QuestionGenerated, QuestionMeeting}

InterviewModes == {"Technical", "HR", "Mixed", "Behavioral"}

\* A text as the evaluator reads it: token by token, each with what Lexicon
\* tells of it.  The sub-scores below take their answer in this form.
Text(tokens) ==
    [i \in 1..Len(tokens) |->
        [raw |-> tokens[i], lower |-> Lexicon[tokens[i]].lower,
         ends |-> Lexicon[tokens[i]].ends, subs |-> Lexicon[tokens[i]].subs,
         pre |-> Lexicon[tokens[i]].pre, suf |-> Lexicon[tokens[i]].suf]]

\* str.lower on every token of a phrase
lower(phrase) == [i \in 1..Len(phrase) |-> Lexicon[phrase[i]].lower]

\* `phrase in answer_lower` for a lower-case phrase: a substring of the text,
\* so its first word ends a token, its last word starts one, and the words
\* between are whole tokens
contains(answer, phrase) ==
    LET n == Len(phrase)
    IN  \E i \in 1..(Len(answer) - n + 1) :
            IF n = 1
            THEN phrase[1] \in answer[i].subs
            ELSE /\ phrase[1] \in answer[i].suf
                 /\ phrase[n] \in answer[i + n - 1].pre
                 /\ \A j \in 2..(n - 1) : answer[i + j - 1].lower = phrase[j]

\* any(phrase in answer_lower for phrase in phrases)
any_in(answer, phrases) == \E phrase \in phrases : contains(answer, phrase)

\* sum(1 for phrase in phrases if phrase in answer_lower)
count_in(answer, phrases) == Cardinality({phrase \in phrases : contains(answer, phrase)})

\* the phrase lists of lines 195-200, 280-283 (= 348-351 = 410-413), 478-481
technical_non_answer_phrases ==
    {<<"i", "don't", "know">>, <<"i", "dont", "know">>, <<"not", "sure">>,
     <<"no", "idea">>, <<"don't", "know">>, <<"dont", "know">>,
     <<"i", "have", "no", "idea">>, <<"i", "am", "not", "sure">>,
     <<"i'm", "not", "sure">>, <<"no", "clue">>, <<"cannot", "answer">>,
     <<"can't", "answer">>, <<"don't", "understand">>, <<"dont", "understand">>,
     <<"not", "familiar">>}

non_answer_phrases ==
    {<<"i", "don't", "know">>, <<"i", "dont", "know">>, <<"not", "sure">>,
     <<"no", "idea">>, <<"don't", "know">>, <<"dont", "know">>,
     <<"i", "have", "no", "idea">>}

feedback_non_answer_phrases ==
    {<<"i", "don't", "know">>, <<"i", "dont", "know">>, <<"not", "sure">>,
     <<"no", "idea">>, <<"don't", "know">>, <<"dont", "know">>}

professional_indicators ==
    {<<"because">>, <<"therefore">>, <<"however">>, <<"additionally">>,
     <<"furthermore">>, <<"consequently">>, <<"specifically">>}

confidence_words ==
    {<<"confident">>, <<"certainly">>, <<"definitely">>, <<"absolutely">>,
     <<"believe">>, <<"sure">>, <<"experience">>, <<"successfully">>}

uncertainty_words ==
    {<<"maybe">>, <<"perhaps">>, <<"not", "sure">>, <<"i", "think">>,
     <<"possibly">>, <<"might">>, <<"could", "be">>, <<"guess">>}

explanation_indicators ==
    {<<"for", "example">>, <<"such", "as">>, <<"like">>, <<"because">>,
     <<"this", "means">>, <<"in", "other", "words">>, <<"specifically">>}

stop_words ==
    {"the", "a", "an", "is", "are", "what", "how", "why", "when", "where", "who",
     "which", "do", "does", "you", "your"}

Min(a, b) == IF a < b THEN a ELSE b
Max(a, b) == IF a > b THEN a ELSE b

\* min(100, max(0, score)), in hundredths
clamp(score) == Min(10000, Max(0, score))

\* What the optional libraries give for the texts of a call: the cosine
\* similarity of the sentence embeddings and TextBlob's polarity and
\* subjectivity, in hundredths.  ok is FALSE when the library is not used; a
\* call that raises is caught (lines 260 and 383) and leaves the score as
\* without the library.
NoSimilarity == [ok |-> FALSE, value |-> 0]
Similarities == [ok : {TRUE}, value : {-20, 100}]

NoSentiment == [ok |-> FALSE, polarity |-> 0, subjectivity |-> 0]
Sentiments == {[ok |-> TRUE, polarity |-> -50, subjectivity |-> 10],
               [ok |-> TRUE, polarity |-> 50, subjectivity |-> 45]}

\* lines 185-269
_evaluate_technical_accuracy(answer, question, mode, similarity) ==
    LET word_count == Len(answer)
        keywords == IF "keywords" \in question.has THEN question.keywords ELSE <<>>
        matched == {k \in 1..Len(keywords) : contains(answer, lower(keywords[k]))}
        partial == {k \in (1..Len(keywords)) \ matched :
                      \E i \in 1..Len(keywords[k]) :
                          contains(answer, <<lower(keywords[k])[i]>>)}
        keyword_points ==
            IF keywords = <<>> THEN 0
            ELSE (Cardinality(matched) * 4500) \div Len(keywords)
                 + (Cardinality(partial) * 1500) \div Len(keywords)
                 - (IF matched = {} /\ partial = {} THEN 2000 ELSE 0)
        technical_concepts == IF "technical_concepts" \in question.has
                              THEN question.technical_concepts ELSE <<>>
        matched_concepts == Cardinality({k \in 1..Len(technical_concepts) :
                                contains(answer, lower(technical_concepts[k]))})
        concept_points ==
            IF technical_concepts = <<>> THEN 0
            ELSE (matched_concepts * 2000) \div Len(technical_concepts)
                 - (IF matched_concepts * 10 < 3 * Len(technical_concepts)
                    THEN 1000 ELSE 0)
        semantic_points == IF similarity.ok THEN similarity.value * 20 ELSE 0
        depth_points == IF word_count > 50 THEN Min((word_count - 50) * 10, 1000)
                        ELSE IF word_count < 20 THEN -1000 ELSE 0
    IN  IF any_in(answer, technical_non_answer_phrases) THEN 500
        ELSE IF word_count < 5 THEN 1000
        ELSE clamp((IF mode = "HR" THEN 2500 ELSE 1500) + keyword_points
                   + concept_points + semantic_points + depth_points)

\* len(sentences) of lines 304-305: the pieces between runs of . ! ? that hold
\* more than blanks
sentence_count(answer) ==
    Cardinality({i \in 1..Len(answer) : answer[i].ends})
    + (IF answer # <<>> /\ ~answer[Len(answer)].ends THEN 1 ELSE 0)

\* word_freq.most_common(1)[0][1]: the count of the most frequent lower-case token
most_common(answer) ==
    LET words == {answer[i].lower : i \in 1..Len(answer)}
        word_freq == [word \in words |->
                         Cardinality({i \in 1..Len(answer) : answer[i].lower = word})]
    IN  IF answer = <<>> THEN 0
        ELSE CHOOSE c \in {word_freq[word] : word \in words} :
                \A word \in words : word_freq[word] <= c

\* lines 271-338
_evaluate_communication_skills(answer) ==
    LET word_count == Len(answer)
        length_points == IF 30 <= word_count /\ word_count <= 200 THEN 2000
                         ELSE IF 20 <= word_count /\ word_count < 30 THEN 1500
                         ELSE IF 10 <= word_count /\ word_count < 20 THEN 1000
                         ELSE IF word_count < 10 THEN -1000 ELSE 0
        sentences == sentence_count(answer)
        sentence_points == IF sentences >= 3 THEN 1500
                           ELSE IF sentences >= 2 THEN 1000 ELSE 500
        unique_words == Cardinality({answer[i].raw : i \in 1..Len(answer)})
        diversity_points == IF unique_words * 10 > 7 * word_count THEN 1500
                            ELSE IF unique_words * 2 > word_count THEN 1000 ELSE 500
        repetition_points == IF most_common(answer) * 5 > word_count THEN -1500 ELSE 0
        professional_count == count_in(answer, professional_indicators)
    IN  IF any_in(answer, non_answer_phrases) THEN 1500
        ELSE IF word_count < 5 THEN 2000
        ELSE clamp(3000 + length_points + sentence_points + diversity_points
                   + repetition_points + Min(professional_count * 300, 1000))

\* lines 340-400
_evaluate_sentiment_and_tone(answer, sentiment) ==
    LET word_count == Len(answer)
        polarity_points == IF ~sentiment.ok THEN 0
                           ELSE IF sentiment.polarity > 20 THEN sentiment.polarity * 30
                           ELSE IF sentiment.polarity > 0 THEN sentiment.polarity * 20
                           ELSE IF sentiment.polarity < -30 THEN -2000 ELSE 0
        subjectivity_points ==
            IF ~sentiment.ok THEN 0
            ELSE IF 30 <= sentiment.subjectivity /\ sentiment.subjectivity <= 60 THEN 1500
            ELSE IF 20 <= sentiment.subjectivity /\ sentiment.subjectivity < 30 THEN 1000
            ELSE IF sentiment.subjectivity < 20 THEN 500 ELSE 0
        confidence_count == count_in(answer, confidence_words)
        uncertainty_count == count_in(answer, uncertainty_words)
    IN  IF any_in(answer, non_answer_phrases) THEN 2000
        ELSE IF word_count < 5 THEN 2500
        ELSE clamp(3500 + polarity_points + subjectivity_points
                   + Min(confidence_count * 400, 1200)
                   - Min(uncertainty_count * 600, 2000))

\* set(re.findall(r'\w+', question_text)) - stop_words
question_keywords(question) ==
    UNION {Lexicon[question.question[i]].words : i \in 1..Len(question.question)}
        \ stop_words

\* lines 402-462.  expected_words is expected_duration * 2.5, so that
\* word_count >= expected_words * 0.8 is word_count >= 2 * expected_duration,
\* and so on.
_evaluate_completeness(answer, question) ==
    LET word_count == Len(answer)
        expected_duration == IF "expected_duration" \in question.has
                             THEN question.expected_duration ELSE 60
        duration_points == IF word_count >= 2 * expected_duration THEN 3000
                           ELSE IF 2 * word_count >= 3 * expected_duration THEN 2500
                           ELSE IF word_count >= expected_duration THEN 1500
                           ELSE IF 2 * word_count < expected_duration THEN -1000 ELSE 0
        matched == Cardinality({kw \in question_keywords(question) :
                                   contains(answer, <<kw>>)})
        total == Cardinality(question_keywords(question))
        match_points == IF total = 0 THEN 0
                        ELSE (matched * 3000) \div total
                             - (IF matched * 5 < total THEN 1500 ELSE 0)
    IN  IF any_in(answer, non_answer_phrases) THEN 1000
        ELSE IF word_count < 5 THEN 1500
        ELSE clamp(2500 + duration_points + match_points
                   + (IF any_in(answer, explanation_indicators) THEN 1000 ELSE 0))

\* lines 464-556; the sub-scores are the unrounded ones, in hundredths.  The
\* messages are the code's without their leading symbol and without the
\* count of missing concepts.
_generate_feedback(answer, question, technical, communication, sentiment, completeness, mode) ==
    LET is_non_answer == any_in(answer, feedback_non_answer_phrases)
        keywords == IF "keywords" \in question.has THEN question.keywords ELSE <<>>
        missed == SelectSeq(keywords, LAMBDA kw : ~contains(answer, lower(kw)))
        word_count == Len(answer)
        list(cond, items) == IF cond THEN items ELSE <<>>
        strengths ==
            list(technical >= 8000, <<"Strong technical understanding demonstrated">>)
            \o list(technical >= 6000 /\ technical < 8000, <<"Good grasp of core concepts">>)
            \o list(communication >= 8000, <<"Excellent communication and articulation">>)
            \o list(communication >= 6000 /\ communication < 8000,
                    <<"Clear and coherent response">>)
            \o list(sentiment >= 8000, <<"Confident and positive tone">>)
            \o list(sentiment >= 6000 /\ sentiment < 8000, <<"Professional demeanor">>)
            \o list(completeness >= 8000, <<"Comprehensive answer addressing all aspects">>)
            \o list(completeness >= 6000 /\ completeness < 8000,
                    <<"Answer covers main points">>)
        weaknesses ==
            list(is_non_answer,
                 <<"Admitted lack of knowledge or provided no substantive answer">>)
            \o list(technical >= 4000 /\ technical < 6000,
                    <<"Technical accuracy needs improvement">>)
            \o list(technical < 4000, <<"Answer lacks technical substance">>)
            \o list(missed # <<>> /\ mode \in {"Technical", "Mixed"} /\ Len(missed) >= 3,
                    <<"Missing key concepts in your answer">>)
            \o list(communication >= 4000 /\ communication < 6000,
                    <<"Communication could be more structured">>)
            \o list(communication < 4000, <<"Poor communication structure">>)
            \o list(sentiment >= 4000 /\ sentiment < 6000, <<"Could show more confidence">>)
            \o list(sentiment < 4000, <<"Tone shows lack of confidence or negativity">>)
            \o list(completeness >= 4000 /\ completeness < 6000,
                    <<"Answer lacks depth or completeness">>)
            \o list(completeness < 4000, <<"Answer is incomplete or off-topic">>)
        suggestions ==
            list(is_non_answer,
                 <<"Even if unsure, try to provide a partial answer or related knowledge",
                   "Explain your thought process or mention related concepts you do know">>)
            \o list(technical >= 4000 /\ technical < 6000,
                    <<"Include more specific technical terminology and concepts">>)
            \o list(technical < 4000,
                    <<"Study the core concepts related to this question",
                      "Provide specific examples and technical details">>)
            \o list(communication >= 4000 /\ communication < 6000 /\ word_count < 20,
                    <<"Provide more detailed explanations (aim for 30-100 words)">>)
            \o list(communication < 4000 /\ word_count < 10,
                    <<"Your answer is too brief - elaborate more">>)
            \o list(communication < 4000,
                    <<"Use complete sentences and organize your thoughts">>)
            \o list(sentiment >= 4000 /\ sentiment < 6000,
                    <<"Use more assertive language and avoid uncertainty">>)
            \o list(sentiment < 4000,
                    <<"Avoid phrases like 'I don't know', 'not sure', 'maybe'">>)
            \o list(completeness >= 4000 /\ completeness < 6000,
                    <<"Ensure you fully address all parts of the question">>)
            \o list(completeness < 4000,
                    <<"Review the question carefully and provide relevant information",
                      "Include examples or specific details to strengthen your answer">>)
        missing_points == IF missed # <<>> /\ mode \in {"Technical", "Mixed"}
                          THEN SubSeq(missed, 1, Min(5, Len(missed))) ELSE <<>>
    IN  [strengths |-> strengths, weaknesses |-> weaknesses,
         suggestions |-> suggestions, missing_technical_points |-> missing_points]

\* lines 558-569; unit is the number of units of score in a point
_get_grade(score, unit) ==
    IF score >= 90 * unit THEN "A (Excellent)"
    ELSE IF score >= 80 * unit THEN "B (Very Good)"
    ELSE IF score >= 70 * unit THEN "C (Good)"
    ELSE IF score >= 60 * unit THEN "D (Satisfactory)"
    ELSE "F (Needs Improvement)"

\* round(x, 1) of a score x >= 0 of n units, unit units in a point: the
\* nearest tenth, a tie going to the even one
round(n, unit) ==
    LET tenth == unit \div 10
        q == n \div tenth
        r == n % tenth
    IN  IF 2 * r < tenth THEN q
        ELSE IF 2 * r > tenth THEN q + 1
        ELSE IF q % 2 = 0 THEN q ELSE q + 1

\* Mutant: the Technical weights are those of a sum above 1.
weights_heavy(interview_mode) ==
    IF interview_mode = "Technical"
    THEN [technical |-> 40, communication |-> 25, sentiment |-> 15, completeness |-> 25]
    ELSE IF interview_mode = "HR"
    THEN [technical |-> 10, communication |-> 35, sentiment |-> 30, completeness |-> 25]
    ELSE [technical |-> 30, communication |-> 30, sentiment |-> 20, completeness |-> 20]

\* lines 110-118, in hundredths
weights(interview_mode) ==
    IF interview_mode = "Technical"
    THEN [technical |-> 40, communication |-> 25, sentiment |-> 15, completeness |-> 20]
    ELSE IF interview_mode = "HR"
    THEN [technical |-> 10, communication |-> 35, sentiment |-> 30, completeness |-> 25]
    ELSE [technical |-> 30, communication |-> 30, sentiment |-> 20, completeness |-> 20]

NoFeedback == [strengths |-> <<>>, weaknesses |-> <<>>, suggestions |-> <<>>,
               missing_technical_points |-> <<>>]

NoScores == [technical |-> 0, communication |-> 0, sentiment |-> 0, completeness |-> 0,
             overall |-> 0]

\* An evaluation dict: keys are the keys it holds, and the scores are in tenths.
\* strategy and raw are no keys of it: strategy tells which path built it, raw
\* holds the unrounded scores of the local path (sub-scores in hundredths,
\* overall in 1/10000).
Evaluation(strategy, keys, overall, technical, communication, sentiment, completeness, feedback, grade, pass, raw) ==
    [strategy |-> strategy, keys |-> keys, overall_score |-> overall,
     technical_accuracy |-> technical, communication_skills |-> communication,
     sentiment_tone |-> sentiment, completeness |-> completeness,
     feedback |-> feedback, grade |-> grade, pass |-> pass, raw |-> raw]

ScoreKeys == {"technical_accuracy", "communication_skills", "sentiment_tone",
              "completeness", "overall_score"}

\* lines 93-142
evaluate_locally(user_answer, question, interview_mode, similarity, sentiment) ==
    LET answer == Text(user_answer)
        technical_score == _evaluate_technical_accuracy(answer, question,
                                                        interview_mode, similarity)
        communication_score == _evaluate_communication_skills(answer)
        sentiment_score == _evaluate_sentiment_and_tone(answer, sentiment)
        completeness_score == _evaluate_completeness(answer, question)
        w == weights(interview_mode)
        overall_score == technical_score * w.technical
                         + communication_score * w.communication
                         + sentiment_score * w.sentiment
                         + completeness_score * w.completeness
    IN  Evaluation("local", ScoreKeys \cup {"feedback", "grade", "pass"},
                   round(overall_score, 10000), round(technical_score, 100),
                   round(communication_score, 100), round(sentiment_score, 100),
                   round(completeness_score, 100),
                   _generate_feedback(answer, question, technical_score,
                                      communication_score, sentiment_score,
                                      completeness_score, interview_mode),
                   _get_grade(overall_score, 10000), overall_score >= 60 * 10000,
                   [technical |-> technical_score, communication |-> communication_score,
                    sentiment |-> sentiment_score, completeness |-> completeness_score,
                    overall |-> overall_score])

\* What generate_content followed by json.loads can give _evaluate_with_gemini
\* (lines 173-183): the call raises (network, quota, timeout); the text is no
\* JSON; the JSON holds no overall_score, or one that is no number (KeyError or
\* TypeError at line 178); the JSON holds a numeric overall_score and nothing
\* else; it holds every key, with scores off the scale; it holds every key as
\* asked for.
GeminiOutcomes == {"raise", "unparsable", "no overall_score", "overall_score only",
                   "off scale", "as asked"}

GeminiFeedback == [strengths |-> <<"Clear definition">>, weaknesses |-> <<"No example">>,
                   suggestions |-> <<"Add an example">>, missing_technical_points |-> <<>>]

\* _evaluate_with_gemini: the parsed data with grade and pass set from its
\* overall_score, or the exception raised again
_evaluate_with_gemini(outcome) ==
    CASE outcome = "as asked" ->
            [res |-> "data",
             data |-> Evaluation("external", ScoreKeys \cup {"feedback", "grade", "pass"},
                                 680, 700, 650, 600, 720, GeminiFeedback,
                                 _get_grade(680, 10), 680 >= 60 * 10, NoScores)]
      [] outcome = "off scale" ->
            [res |-> "data",
             data |-> Evaluation("external", ScoreKeys \cup {"feedback", "grade", "pass"},
                                 1500, 1200, -50, 600, 720, GeminiFeedback,
                                 _get_grade(1500, 10), 1500 >= 60 * 10, NoScores)]
      [] outcome = "overall_score only" ->
            [res |-> "data",
             data |-> Evaluation("external", {"overall_score", "grade", "pass"},
                                 700, 0, 0, 0, 0, NoFeedback,
                                 _get_grade(700, 10), 700 >= 60 * 10, NoScores)]
      [] OTHER -> [res |-> "raise", data |-> NoScores]

\* The optional libraries as the imports of lines 16-35 found them, and what
\* the two text libraries give for the answer and the question of the run
Libraries ==
    { [gemini |-> gemini, sentence_transformers |-> similarity.ok,
       textblob |-> sentiment.ok, similarity |-> similarity, sentiment |-> sentiment] :
        gemini \in BOOLEAN, similarity \in Similarities \cup {NoSimilarity},
        sentiment \in Sentiments \cup {NoSentiment} }

NoLibraries == [gemini |-> FALSE, sentence_transformers |-> FALSE, textblob |-> FALSE,
                similarity |-> NoSimilarity, sentiment |-> NoSentiment]

NoEvaluator == [constructed |-> FALSE, use_llm |-> FALSE, model |-> FALSE]

NoEvaluation == Evaluation("none", {}, 0, 0, 0, 0, 0, NoFeedback, "", FALSE, NoScores)

\* A call of evaluate_answer: its arguments, what the external model gave it,
\* and what it returned
Call(user_answer, question, interview_mode, difficulty, gemini, result) ==
    [user_answer |-> user_answer, question |-> question,
     interview_mode |-> interview_mode, difficulty |-> difficulty,
     gemini |-> gemini, result |-> result]

NoCall == Call(<<>>, QuestionMeeting, "", "", NotAttempted, NoEvaluation)

\* NLPEvaluator.__init__ (lines 41-66).  api_key is TRUE when a key is passed;
\* configured is FALSE when genai.configure or GenerativeModel raises, loaded
\* is FALSE when SentenceTransformer(...) raises.
__init__(api_key, configured, loaded) ==
    LET use_llm == api_key /\ libraries.gemini /\ configured
    IN  /\ evaluator' = [constructed |-> TRUE, use_llm |-> use_llm,
                         model |-> ~use_llm /\ libraries.sentence_transformers /\ loaded]
        /\ UNCHANGED <<libraries, evaluated>>

\* NLPEvaluator.evaluate_answer (lines 68-142): the local path runs when the
\* external model is not used or _evaluate_with_gemini raises
evaluate_answer(user_answer, question, interview_mode, difficulty) ==
    LET local == evaluate_locally(user_answer, question, interview_mode,
                                  IF evaluator.model /\ libraries.sentence_transformers
                                  THEN libraries.similarity ELSE NoSimilarity,
                                  IF libraries.textblob
                                  THEN libraries.sentiment ELSE NoSentiment)
    IN  /\ UNCHANGED <<libraries, evaluator>>
        /\ \E outcome \in (IF evaluator.use_llm THEN GeminiOutcomes ELSE {NotAttempted}) :
              evaluated' = Call(user_answer, question, interview_mode, difficulty, outcome,
                                IF outcome # NotAttempted
                                   /\ _evaluate_with_gemini(outcome).res = "data"
                                THEN _evaluate_with_gemini(outcome).data
                                ELSE local)

----------------------------------------------------------------------------
\* Session store (src/modules/database.py, InterviewDatabase)

\* A score kept as the quotient Python computes: n / d
Quotient(n, d) == [n |-> n, d |-> d]

\* 'overall_score': 0 of a new session
Zero == Quotient(0, 1)

SessionIds == {"session_1", "session_2"}

\* The session dict of create_session (lines 377-390).  end_time is "None"
\* or "now"; transcript is metadata['transcript'], the list append_transcript
\* writes; user_name, mode, difficulty, start_time and meeting_id are written
\* once and read by no operation modelled here.
Session(session_id) ==
    [session_id |-> session_id, end_time |-> "None", questions |-> <<>>,
     overall_score |-> Zero, status |-> "active", transcript |-> <<>>]

NoSession == Session("None")

\* question_data as the callers build it: _process_answer (app_enhanced.py
\* 1375-1387, with the ideal answer of a generated question) and
\* test_database (test_setup.py 136-154, no stt_metrics, no duration).
\* optional holds the keys the dict has besides question, answer and
\* evaluation.
QuestionData(question, answer, overall_score, optional, stt_metrics, duration) ==
    [question |-> question, answer |-> answer,
     evaluation |-> [overall_score |-> overall_score],
     optional |-> optional, stt_metrics |-> stt_metrics, duration |-> duration]

ResponseProcessed ==
    QuestionData("What is a variable in programming?", "A named storage location.", 80,
                 {"stt_metrics", "duration", "ideal_answer"}, "metrics", 12)

ResponseTest == QuestionData("Test question?", "Test answer", 60, {}, "", 0)

QuestionDatas == {ResponseProcessed, ResponseTest}

TranscriptEntries == {[speaker |-> "User", text |-> "I work."]}

NoData == QuestionData("", "", 0, {}, "", 0)

\* The dict add_question_response appends (lines 411-418): the five keys it
\* reads, with the defaults of .get, and a timestamp; other keys are dropped
response_wrong_answer(question_data) ==
    [timestamp |-> "now", question |-> question_data.question,
     answer |-> question_data.question,
     evaluation |-> question_data.evaluation,
     stt_metrics |-> IF "stt_metrics" \in question_data.optional
                     THEN question_data.stt_metrics ELSE "{}",
     duration |-> IF "duration" \in question_data.optional
                  THEN question_data.duration ELSE 0]
response(question_data) ==
    [timestamp |-> "now", question |-> question_data.question,
     answer |-> question_data.answer,
     evaluation |-> question_data.evaluation,
     stt_metrics |-> IF "stt_metrics" \in question_data.optional
                     THEN question_data.stt_metrics ELSE "{}",
     duration |-> IF "duration" \in question_data.optional
                  THEN question_data.duration ELSE 0]

\* A file of the data directory: absent, a complete JSON document of a
\* sessions list, or text that json.load rejects (an empty or cut-off file).
\* Nothing reads the temporary file: of its text, only whether it is a whole
\* document is kept (Whole).
Document(sessions) == [exists |-> TRUE, complete |-> TRUE, sessions |-> sessions]

Absent == [exists |-> FALSE, complete |-> FALSE, sessions |-> <<>>]

Partial == [exists |-> TRUE, complete |-> FALSE, sessions |-> <<>>]

Whole == [exists |-> TRUE, complete |-> TRUE, sessions |-> <<>>]

Files(sessions_file, temp_file) == [sessions_file |-> sessions_file, temp_file |-> temp_file]

\* How a write to the data directory ends: it is done, an exception is raised
\* (_ensure_data_directory finds no write permission, or open, json.dump or
\* os.replace raises), or the process is killed at one of its steps
Written == "written"

Read == "read"

Failures == {"no permission", "write raises"}

Kills == {"killed in dump", "killed before replace"}

WriteOutcomes == {Written} \cup Failures \cup Kills

NoWrite == "no write"

\* The outcomes a write can have when no more than MaxFaults of the calls of
\* a run meet a fault
Outcomes(all) == IF faults < MaxFaults THEN all ELSE all \cap {Written, Read}

\* A call that left `then` in called is one more fault when its write or
\* read did not end well
count_fault(then) ==
    faults' = IF then.write \in {Written, Read, NoWrite} THEN faults ELSE faults + 1

RECURSIVE sum(_)
sum(scores) == IF scores = <<>> THEN 0 ELSE scores[1] + sum(Tail(scores))

\* The number of responses the sessions of a list hold
total_responses(sessions) ==
    sum([k \in 1..Len(sessions) |-> Len(sessions[k].questions)])

\* _get_session (lines 492-497): the index of the first session of
\* self.sessions with the id, 0 for None
_get_session(sessions, session_id) ==
    IF \E i \in 1..Len(sessions) : sessions[i].session_id = session_id
    THEN CHOOSE i \in 1..Len(sessions) :
            /\ sessions[i].session_id = session_id
            /\ \A j \in 1..(i - 1) : sessions[j].session_id # session_id
    ELSE 0

\* _save_database (lines 329-359) of the list sessions over the files fs: the
\* files it leaves and what it returns.  The .permission_test file of
\* _ensure_data_directory is no sessions file and is left out.  A failed
\* os.remove of the clean-up is swallowed and leaves the temporary file, as a
\* kill does.
_save_database_raises(sessions, fs, outcome) ==
    CASE outcome = Written ->
            [files |-> Files(Document(sessions), Absent), res |-> "True"]
      [] outcome = "killed in dump" ->
            [files |-> Files(fs.sessions_file, Partial), res |-> "killed"]
      [] outcome = "killed before replace" ->
            [files |-> Files(fs.sessions_file, Whole), res |-> "killed"]
      [] outcome = "no permission" -> [files |-> fs, res |-> "raise"]
      [] OTHER -> [files |-> Files(fs.sessions_file, Absent), res |-> "raise"]
_save_database(sessions, fs, outcome) ==
    CASE outcome = Written ->
            [files |-> Files(Document(sessions), Absent), res |-> "True"]
      [] outcome = "killed in dump" ->
            [files |-> Files(fs.sessions_file, Partial), res |-> "killed"]
      [] outcome = "killed before replace" ->
            [files |-> Files(fs.sessions_file, Whole), res |-> "killed"]
      [] outcome = "no permission" -> [files |-> fs, res |-> "False"]
      [] OTHER -> [files |-> Files(fs.sessions_file, Absent), res |-> "False"]

\* _load_database (lines 305-327) over the files fs: self.sessions, the files
\* it leaves, and whether the process lives.  The outcome is that of reading
\* an existing file (json.load raises on one that is no document), or of
\* writing the first one: open(self.db_path, 'w') followed by
\* json.dump([], f), on the sessions file itself.
_load_database(fs, outcome) ==
    CASE fs.sessions_file.exists /\ fs.sessions_file.complete /\ outcome = Read ->
            [sessions |-> fs.sessions_file.sessions, files |-> fs, res |-> "None"]
      [] fs.sessions_file.exists -> [sessions |-> <<>>, files |-> fs, res |-> "None"]
      [] outcome = Written ->
            [sessions |-> <<>>, files |-> Files(Document(<<>>), fs.temp_file),
             res |-> "None"]
      [] outcome = "write raises" ->
            [sessions |-> <<>>, files |-> Files(Partial, fs.temp_file), res |-> "None"]
      [] outcome = "killed in dump" ->
            [sessions |-> <<>>, files |-> Files(Partial, fs.temp_file), res |-> "killed"]
      [] OTHER -> [sessions |-> <<>>, files |-> fs, res |-> "None"]

\* The outcomes _load_database can have over the files fs
LoadOutcomes(fs) ==
    IF fs.sessions_file.exists
    THEN {Read, "read raises"}
    ELSE {Written, "no permission", "write raises", "killed in dump"}

\* No store object: mongo_uri tells whether the process is started with the
\* URI of a MongoDB server that answers, with pymongo importable
NoDatabase(mongo_uri) ==
    [alive |-> FALSE, mongo_uri |-> mongo_uri, use_mongo |-> FALSE, sessions |-> <<>>]

\* A call on the store: the operation, its arguments, how its write ended,
\* the list it handed to json.dump, whether _get_session found the session,
\* what it returned ("raise" for an exception, "killed" when the process
\* died in it), and the session dict when it returned one
Called(op, session_id, data, write, doc, found, res) ==
    [op |-> op, session_id |-> session_id, data |-> data, write |-> write,
     doc |-> doc, found |-> found, res |-> res, session |-> NoSession]

NoCalled == Called("none", "None", NoData, NoWrite, <<>>, FALSE, "None")

\* What a write that ended with res leaves of the store object
after_write(db, res) == IF res = "killed" THEN NoDatabase(db.mongo_uri) ELSE db

\* What the caller of a write that ended with res sees: `then`, unless the
\* write raised or the process died
propagate(res, then) == IF res \in {"raise", "killed"} THEN res ELSE then

\* InterviewDatabase.__init__ (lines 28-67)
InterviewDatabase(outcome) ==
    LET loaded == _load_database(files, outcome)
    IN  IF database.mongo_uri
        THEN /\ database' = [database EXCEPT !.alive = TRUE, !.use_mongo = TRUE]
             /\ called' = Called("__init__", "None", NoData, NoWrite, <<>>, FALSE, "None")
             /\ UNCHANGED <<files, collection>>
        ELSE /\ database' = after_write([database EXCEPT !.alive = TRUE,
                                                         !.sessions = loaded.sessions],
                                        loaded.res)
             /\ files' = loaded.files
             /\ called' = Called("__init__", "None", NoData, outcome, <<>>, FALSE,
                                 loaded.res)
             /\ UNCHANGED collection

\* create_session (lines 361-399)
create_session(session_id, outcome) ==
    IF database.use_mongo
    THEN /\ collection' = Append(collection, Session(session_id))
         /\ called' = Called("create_session", session_id, NoData, NoWrite, <<>>, FALSE,
                             session_id)
         /\ UNCHANGED <<database, files>>
    ELSE LET sessions == Append(database.sessions, Session(session_id))
             saved == _save_database(sessions, files, outcome)
         IN  /\ database' = after_write([database EXCEPT !.sessions = sessions], saved.res)
             /\ files' = saved.files
             /\ called' = Called("create_session", session_id, NoData, outcome, sessions,
                                 FALSE, propagate(saved.res, session_id))
                 /\ UNCHANGED collection

\* add_question_response (lines 401-421)
add_question_response(session_id, question_data, outcome) ==
    LET i == _get_session(database.sessions, session_id)
        sessions == [database.sessions EXCEPT
                        ![i].questions = Append(@, response(question_data))]
        saved == _save_database(sessions, files, outcome)
    IN  /\ UNCHANGED collection
        /\ IF i # 0
           THEN /\ database' = after_write([database EXCEPT !.sessions = sessions],
                                           saved.res)
                /\ files' = saved.files
                /\ called' = Called("add_question_response", session_id, question_data,
                                    outcome, sessions, TRUE, propagate(saved.res, "None"))
           ELSE /\ called' = Called("add_question_response", session_id, question_data,
                                    NoWrite, <<>>, FALSE, "None")
                /\ UNCHANGED <<database, files>>

\* append_transcript (lines 435-451)
append_transcript(session_id, entry, outcome) ==
    LET i == _get_session(database.sessions, session_id)
        sessions == [database.sessions EXCEPT
                        ![i].transcript = Append(@, [timestamp |-> "now",
                                                     speaker |-> entry.speaker,
                                                     text |-> entry.text])]
        saved == _save_database(sessions, files, outcome)
    IN  /\ UNCHANGED collection
        /\ IF i # 0
           THEN /\ database' = after_write([database EXCEPT !.sessions = sessions],
                                           saved.res)
                /\ files' = saved.files
                /\ called' = Called("append_transcript", session_id, NoData, outcome,
                                    sessions, TRUE, propagate(saved.res, "True"))
           ELSE /\ called' = Called("append_transcript", session_id, NoData, NoWrite,
                                    <<>>, FALSE, "False")
                /\ UNCHANGED <<database, files>>

\* The score end_session stores (lines 466-469): the mean of the
\* overall_score of the evaluations, the old score when there is none
final_score_of_first(session) ==
    IF session.questions # <<>>
    THEN Quotient(session.questions[1].evaluation.overall_score, 1)
    ELSE session.overall_score
final_score(session) ==
    IF session.questions # <<>>
    THEN Quotient(sum([k \in 1..Len(session.questions) |->
                          session.questions[k].evaluation.overall_score]),
                  Len(session.questions))
    ELSE session.overall_score

\* InterviewDatabase.end_session (lines 453-471)
db_end_session(session_id, outcome) ==
    LET i == _get_session(database.sessions, session_id)
        sessions == [database.sessions EXCEPT
                        ![i].end_time = "now",
                        ![i].status = "completed",
                        ![i].overall_score = final_score(database.sessions[i])]
        saved == _save_database(sessions, files, outcome)
    IN  /\ UNCHANGED collection
        /\ IF i # 0
           THEN /\ database' = after_write([database EXCEPT !.sessions = sessions],
                                           saved.res)
                /\ files' = saved.files
                /\ called' = Called("end_session", session_id, NoData, outcome, sessions,
                                    TRUE, propagate(saved.res, "None"))
           ELSE /\ called' = Called("end_session", session_id, NoData, NoWrite, <<>>,
                                    FALSE, "None")
                /\ UNCHANGED <<database, files>>

\* get_session (lines 473-483): the session dict, NoSession for None
get_session(session_id) ==
    LET i == _get_session(database.sessions, session_id)
    IN  /\ called' = [Called("get_session", session_id, NoData, NoWrite, <<>>, i # 0,
                             IF i # 0 THEN "session" ELSE "None")
                          EXCEPT !.session = IF i # 0 THEN database.sessions[i]
                                             ELSE NoSession]
        /\ UNCHANGED <<database, files, collection>>

----------------------------------------------------------------------------
\* Specifications

\* The managers as constructed (__init__), and a meeting as created.
Init ==
    /\ llm_model = [m \in Managers |-> FALSE]
    /\ current_session = [m \in Managers |-> None]
    /\ custom_qs \in MeetingLists
    /\ created_qs = custom_qs
    /\ ret = [m \in Managers |-> Ret("__init__", "None", NoQuestion, NoFollowUp, NoEval)]
    /\ libraries = NoLibraries
    /\ evaluator = NoEvaluator
    /\ evaluated = NoCall
    /\ database = NoDatabase(FALSE)
    /\ files = Files(Absent, Absent)
    /\ collection = <<>>
    /\ called = NoCalled
    /\ faults = 0

\* One manager, every way of starting a session.  The application starts an
\* interview from its setup pages, shown while no interview is running; a
\* start over a live session leaves what end_session followed by start_session
\* leaves.
StartSession ==
    /\ ~current_session["A"].active
    /\ \E mode \in Modes, difficulty \in Difficulties, num_questions \in 1..MaxCount,
       target_keywords \in TargetKeywords, resume_text \in ResumeTexts,
       job_description \in JobDescriptions,
       custom_questions_list \in {"None", "meeting"}, api_key \in BOOLEAN :
           start_session("A", mode, difficulty, num_questions, target_keywords,
                         resume_text, job_description, custom_questions_list, api_key)
    /\ UNCHANGED <<evaluator_vars, store_vars>>

GetNextQuestion == get_next_question("A") /\ UNCHANGED <<evaluator_vars, store_vars>>

ShouldAskFollowUp ==
    /\ \E evaluation \in Evaluations : should_ask_follow_up("A", evaluation)
    /\ UNCHANGED <<evaluator_vars, store_vars>>

RecordAnswer ==
    /\ \E user_answer \in Answers : record_answer("A", user_answer)
    /\ UNCHANGED <<evaluator_vars, store_vars>>

EndSession == end_session("A") /\ UNCHANGED <<evaluator_vars, store_vars>>

Next ==
    \/ StartSession
    \/ GetNextQuestion
    \/ ShouldAskFollowUp
    \/ RecordAnswer
    \/ EndSession

Spec == Init /\ [][Next]_vars

\* Two candidates of one meeting, each in a browser session of its own with a
\* manager of its own (app_enhanced.py, "Start Interview Assessment"): the
\* session is started with the meeting's custom_questions list, and with
\* setup_num_questions questions of the bank when that list is empty.  The
\* candidates have no resume, no job description and no API key.
JoinMeeting(m) ==
    /\ ~current_session[m].active
    /\ \E setup_num_questions \in 1..MaxCount :
           start_session(m, "Technical", "Beginner",
                         IF custom_qs # <<>> THEN Len(custom_qs) ELSE setup_num_questions,
                         {}, "", "", "meeting", FALSE)
    /\ UNCHANGED <<evaluator_vars, store_vars>>

NextMeeting ==
    \E m \in Managers :
        \/ JoinMeeting(m)
        \/ get_next_question(m) /\ UNCHANGED <<evaluator_vars, store_vars>>
        \/ /\ \E evaluation \in Evaluations : should_ask_follow_up(m, evaluation)
           /\ UNCHANGED <<evaluator_vars, store_vars>>
        \/ end_session(m) /\ UNCHANGED <<evaluator_vars, store_vars>>

SpecMeeting == Init /\ [][NextMeeting]_vars

\* One evaluator and one answer to one question: the libraries, the answer,
\* the question, the mode and the difficulty are drawn at the start, the
\* evaluator is constructed once, with or without a key, and evaluate_answer
\* is called on it any number of times.
InitEvaluator ==
    /\ llm_model = [m \in Managers |-> FALSE]
    /\ current_session = [m \in Managers |-> None]
    /\ custom_qs = <<>>
    /\ created_qs = <<>>
    /\ ret = [m \in Managers |-> Ret("__init__", "None", NoQuestion, NoFollowUp, NoEval)]
    /\ libraries \in Libraries
    /\ evaluator = NoEvaluator
    /\ evaluated \in { Call(user_answer, question, interview_mode, difficulty,
                            NotAttempted, NoEvaluation) :
                         user_answer \in UserAnswers, question \in Questions,
                         interview_mode \in InterviewModes, difficulty \in EvaluatedDifficulties }
    /\ database = NoDatabase(FALSE)
    /\ files = Files(Absent, Absent)
    /\ collection = <<>>
    /\ called = NoCalled
    /\ faults = 0

NewEvaluator ==
    /\ ~evaluator.constructed
    /\ \E api_key \in BOOLEAN, configured \in BOOLEAN, loaded \in BOOLEAN :
           __init__(api_key, configured, loaded)
    /\ UNCHANGED <<flow_vars, store_vars>>

EvaluateAnswer ==
    /\ evaluator.constructed
    /\ evaluate_answer(evaluated.user_answer, evaluated.question,
                       evaluated.interview_mode, evaluated.difficulty)
    /\ UNCHANGED <<flow_vars, store_vars>>

NextEvaluator ==
    \/ NewEvaluator
    \/ EvaluateAnswer

SpecEvaluator == InitEvaluator /\ [][NextEvaluator]_vars

\* One sessions store over one data directory (get_database gives every
\* caller the same object): the store is constructed when the process starts,
\* on a data directory that is empty at first, and again after the process
\* was killed.  A session id is built from two readings of the clock
\* (line 375); the calls are made one after the other, and the id is taken
\* as one that no session known to the store or kept on disk has.
InitStore ==
    /\ llm_model = [m \in Managers |-> FALSE]
    /\ current_session = [m \in Managers |-> None]
    /\ custom_qs = <<>>
    /\ created_qs = <<>>
    /\ ret = [m \in Managers |-> Ret("__init__", "None", NoQuestion, NoFollowUp, NoEval)]
    /\ libraries = NoLibraries
    /\ evaluator = NoEvaluator
    /\ evaluated = NoCall
    /\ database \in {NoDatabase(mongo_uri) : mongo_uri \in BOOLEAN}
    /\ files = Files(Absent, Absent)
    /\ collection = <<>>
    /\ called = NoCalled
    /\ faults = 0

KnownIds ==
    {database.sessions[i].session_id : i \in 1..Len(database.sessions)}
        \cup {files.sessions_file.sessions[i].session_id :
                i \in 1..Len(files.sessions_file.sessions)}
        \cup {collection[i].session_id : i \in 1..Len(collection)}

\* The id of the next session: the first one that is free
FreshId == IF "session_1" \in KnownIds THEN "session_2" ELSE "session_1"

NewDatabase ==
    /\ ~database.alive
    /\ \E outcome \in Outcomes(LoadOutcomes(files)) : InterviewDatabase(outcome)
    /\ count_fault(called')
    /\ UNCHANGED <<flow_vars, evaluator_vars>>

CreateSession ==
    /\ database.alive
    /\ Len(database.sessions) < MaxSessions
    /\ Len(collection) < MaxSessions
    /\ FreshId \notin KnownIds
    /\ \E outcome \in Outcomes(WriteOutcomes) : create_session(FreshId, outcome)
    /\ count_fault(called')
    /\ UNCHANGED <<flow_vars, evaluator_vars>>

AddQuestionResponse ==
    /\ database.alive
    /\ total_responses(database.sessions) < MaxResponses
    /\ \E session_id \in SessionIds, question_data \in QuestionDatas,
          outcome \in Outcomes(WriteOutcomes) :
           add_question_response(session_id, question_data, outcome)
    /\ count_fault(called')
    /\ UNCHANGED <<flow_vars, evaluator_vars>>

AppendTranscript ==
    /\ database.alive
    /\ \E session_id \in SessionIds, entry \in TranscriptEntries,
          outcome \in Outcomes(WriteOutcomes) :
           /\ \A i \in 1..Len(database.sessions) :
                  Len(database.sessions[i].transcript) < MaxTranscript
           /\ append_transcript(session_id, entry, outcome)
    /\ count_fault(called')
    /\ UNCHANGED <<flow_vars, evaluator_vars>>

EndStoredSession ==
    /\ database.alive
    /\ \E session_id \in SessionIds, outcome \in Outcomes(WriteOutcomes) :
           db_end_session(session_id, outcome)
    /\ count_fault(called')
    /\ UNCHANGED <<flow_vars, evaluator_vars>>

GetSession ==
    /\ database.alive
    /\ \E session_id \in SessionIds : get_session(session_id)
    /\ UNCHANGED <<faults, flow_vars, evaluator_vars>>

\* The process is killed between two calls
Kill ==
    /\ database.alive
    /\ faults < MaxFaults
    /\ faults' = faults + 1
    /\ database' = NoDatabase(database.mongo_uri)
    /\ called' = Called("kill", "None", NoData, NoWrite, <<>>, FALSE, "killed")
    /\ UNCHANGED <<files, collection, flow_vars, evaluator_vars>>

NextStore ==
    \/ NewDatabase
    \/ CreateSession
    \/ AddQuestionResponse
    \/ AppendTranscript
    \/ EndStoredSession
    \/ GetSession
    \/ Kill

SpecStore == InitStore /\ [][NextStore]_vars

----------------------------------------------------------------------------
\* Properties

Oids(s) == {s[i].oid : i \in 1..Len(s)}
Values(s) == {s[i].d : i \in 1..Len(s)}
Count(s, d) == Cardinality({i \in 1..Len(s) : s[i].d = d})

\* A call of get_next_question on m is the step: its result differs from the
\* result of the call before it.
NextQuestionCall(m) == ret'[m] # ret[m] /\ ret'[m].op = "get_next_question"

\* C1: in every state of a session len(questions_asked) = current_index, and
\* a get_next_question call that returns a follow-up changes neither.
C1_AskedMatchesIndex ==
    /\ [](\A m \in Managers :
            Len(current_session[m].questions_asked) = current_session[m].current_index)
    /\ [][\A m \in Managers :
            (NextQuestionCall(m) /\ ret'[m].res = "follow_up")
                => /\ current_session'[m].current_index = current_session[m].current_index
                   /\ current_session'[m].questions_asked = current_session[m].questions_asked]_vars

C1_Witness ==
    /\ ret["A"].res = "follow_up"
    /\ current_session["A"].current_index = 2
    /\ Len(current_session["A"].questions_asked) = 2

\* C2: a question returned by get_next_question has left available_questions
\* and stays out of it: the pool and questions_asked share no question object
\* (a recycle brings fresh copies, which are other objects).
C2_DrawnLeavesPool ==
    \A m \in Managers :
        current_session[m].active
            => Oids(available_questions(m)) \cap Oids(current_session[m].questions_asked) = {}

\* The sessions C3 is about: no forced list, no external model, no follow-up
\* ever triggered (a trigger records a reason, and nothing unsets it).
PlainSession(m) ==
    /\ current_session[m].active
    /\ current_session[m].given = <<>>
    /\ ~llm_model[m]
    /\ current_session[m].follow_up_reason = "unset"

BankEntry(m) == questions_bank[<<current_session[m].mode, current_session[m].difficulty>>]

Distinct(s) == \A i, j \in 1..Len(s) : s[i].d = s[j].d => i = j

\* What C3 says of a session: the questions drawn so far are pairwise distinct
\* questions of the bank entry, and null is returned at call N+1 and not before.
DrawsFromBank(m) ==
    /\ Distinct(current_session[m].questions_asked)
    /\ Values(current_session[m].questions_asked) \subseteq Range(BankEntry(m))
    /\ (ret[m].op = "get_next_question" /\ ret[m].res = "None")
           => current_session[m].current_index = current_session[m].num_questions

NullAfterLast(m) ==
    (/\ current_session[m].current_index = current_session[m].num_questions
     /\ NextQuestionCall(m))
        => ret'[m].res = "None"

\* C3 as stated: for a session with target count N, no forced questions, no
\* external model and no follow-up, the first N calls return N pairwise
\* distinct questions of the bank entry and call N+1 returns null.
C3_Original ==
    \A m \in Managers : PlainSession(m) => DrawsFromBank(m)

\* C3, amended: the same, for a session started without resume and
\* job-description text whose bank entry holds at least N questions, pairwise
\* distinct.
C3_DistinctBankDraws ==
    /\ [](\A m \in Managers :
            (/\ PlainSession(m)
             /\ ~current_session[m].tailored
             /\ Len(BankEntry(m)) >= current_session[m].num_questions
             /\ \A i, j \in 1..Len(BankEntry(m)) :
                    BankEntry(m)[i] = BankEntry(m)[j] => i = j)
                => DrawsFromBank(m))
    /\ [][\A m \in Managers :
            PlainSession(m) => NullAfterLast(m)]_vars

C3_Witness ==
    /\ PlainSession("A")
    /\ ~current_session["A"].tailored
    /\ current_session["A"].mode = "Technical"
    /\ current_session["A"].difficulty = "Intermediate"
    /\ current_session["A"].num_questions = 3
    /\ Len(current_session["A"].questions_asked) = 3
    /\ ret["A"].op = "get_next_question"
    /\ ret["A"].res = "None"

\* C4: on a session, should_ask_follow_up returns true exactly when
\* completeness < 60 or overall_score < 50; the reason recorded is 'incomplete'
\* when completeness < 60 and 'too_short' otherwise.
C4_FollowUpDecision ==
    \A m \in Managers :
        (ret[m].op = "should_ask_follow_up" /\ current_session[m].active)
            => LET ev == ret[m].ev
                   low == ev.completeness < 60 \/ ev.overall_score < 50
               IN  /\ ret[m].res = (IF low THEN "True" ELSE "False")
                   /\ low => /\ current_session[m].follow_up_needed
                             /\ current_session[m].follow_up_reason =
                                    (IF ev.completeness < 60 THEN "incomplete"
                                     ELSE "too_short")

C4_Witness ==
    /\ ret["A"].op = "should_ask_follow_up"
    /\ ret["A"].res = "True"
    /\ ret["A"].ev.completeness = 60
    /\ ret["A"].ev.overall_score = 49
    /\ current_session["A"].follow_up_reason = "too_short"

\* C5: when should_ask_follow_up has returned true for the answer to a drawn
\* question, the very next get_next_question call returns a follow-up and
\* changes neither current_index nor available_questions, also at
\* current_index = num_questions.
C5_FollowUpServedNext ==
    [][\A m \in Managers :
        (/\ ret[m].op = "should_ask_follow_up"
         /\ ret[m].res = "True"
         /\ current_session[m].questions_asked # <<>>
         /\ ret'[m].op = "get_next_question")
            => /\ ret'[m].res = "follow_up"
               /\ current_session'[m].current_index = current_session[m].current_index
               /\ available_questions(m)' = available_questions(m)]_vars

\* C6: every follow-up returned by get_next_question is immediately preceded
\* by a should_ask_follow_up call that returned true.
C6_FollowUpOnlyAfterTrigger ==
    [][\A m \in Managers :
        (NextQuestionCall(m) /\ ret'[m].res = "follow_up")
            => (ret[m].op = "should_ask_follow_up" /\ ret[m].res = "True")]_vars

\* C7: once get_next_question has returned a follow-up, follow_up_needed is
\* false, and the next get_next_question call, with no should_ask_follow_up
\* call in between, returns no follow-up.
C7_OneFollowUpPerTrigger ==
    /\ [](\A m \in Managers :
            ret[m].res = "follow_up" => ~current_session[m].follow_up_needed)
    /\ [][\A m \in Managers :
            (ret[m].res = "follow_up" /\ NextQuestionCall(m))
                => ret'[m].res # "follow_up"]_vars

C7_Witness ==
    /\ ret["A"].res = "follow_up"
    /\ current_session["A"].follow_up_reason = "too_short"
    /\ ~current_session["A"].follow_up_needed

\* C8: in every state of an active session current_index <= num_questions.
C8_IndexWithinTarget ==
    \A m \in Managers :
        current_session[m].active
            => current_session[m].current_index <= current_session[m].num_questions

C8_Witness ==
    /\ current_session["A"].active
    /\ current_session["A"].num_questions = MaxCount
    /\ current_session["A"].current_index = MaxCount
    /\ ret["A"].op = "get_next_question"
    /\ ret["A"].res = "follow_up"

\* C9: sessions share no mutable question state: drawing in one session
\* changes neither the caller's list nor what another session receives when
\* it is started from that list.
C9_SessionsIsolated ==
    /\ custom_qs = created_qs
    /\ \A m \in Managers :
           current_session[m].given # <<>> => current_session[m].given = created_qs

\* C10: a session started with a non-empty forced list has that list as its
\* pool and its length as num_questions, draws only forced questions, and has
\* drawn all of them when get_next_question returns null.
C10_ForcedExclusive ==
    \A m \in Managers :
        current_session[m].given # <<>>
            => LET cs == current_session[m]
               IN  /\ cs.num_questions = Len(cs.given)
                   /\ Values(cs.questions_asked) \subseteq Values(cs.given)
                   /\ (ret[m].op = "get_next_question" /\ ret[m].res = "None")
                          => \A d \in Values(cs.given) :
                                 Count(cs.questions_asked, d) = Count(cs.given, d)

\* C11: start_session calls the external model only when a model is configured
\* and a resume or job-description text is given; when the call raises or gives
\* an empty list, start_session returns the session, and its pool is one that
\* a start without a model builds for the same mode and difficulty: the copies
\* of the bank entry with the template questions in front, sorted when target
\* keywords are given.
FallbackPools(m, mode, difficulty) ==
    UNION { dynamic_pools(m, mode, difficulty, target_keywords, resume_text,
                          job_description, <<>>) :
              target_keywords \in TargetKeywords,
              resume_text \in ResumeTexts \ {""},
              job_description \in JobDescriptions }

C11_LLMFallback ==
    \A m \in Managers :
        LET cs == current_session[m]
        IN  ret[m].op = "start_session" =>
              /\ ret[m].res = "session" /\ cs.active
              /\ ret[m].llm # NotAttempted =>
                     llm_model[m] /\ cs.tailored /\ cs.pool_ref = "own"
              /\ ret[m].llm \in {"raise", "empty"} =>
                     /\ cs.available_questions \in FallbackPools(m, cs.mode, cs.difficulty)
                     /\ cs.copies = 1

C11_Witness ==
    /\ ret["A"].op = "start_session"
    /\ ret["A"].llm = "raise"
    /\ Len(current_session["A"].available_questions) > 1

\* C12: a call of get_next_question on a session with no follow-up pending,
\* current_index below num_questions and an empty pool returns a copy of a
\* question of the bank entry of the session's mode and difficulty, made by
\* that call, and the pool is then the other copies; when the entry is empty
\* the call returns None and leaves current_index and questions_asked alone.
EmptyPoolCall(m) ==
    /\ current_session[m].active
    /\ ~current_session[m].follow_up_needed
    /\ current_session[m].current_index < current_session[m].num_questions
    /\ available_questions(m) = <<>>
    /\ get_next_question(m)

C12_RefillFromBank ==
    [][\A m \in Managers :
          EmptyPoolCall(m) =>
            LET cs == current_session[m]
                entry == questions_bank[<<cs.mode, cs.difficulty>>]
                question == ret'[m].q
            IN  IF entry = <<>>
                THEN /\ ret'[m].res = "None"
                     /\ current_session'[m].current_index = cs.current_index
                     /\ current_session'[m].questions_asked = cs.questions_asked
                ELSE /\ ret'[m].res = "question"
                     /\ question.oid.src = "bank"
                     /\ question.oid.k \in 1..Len(entry)
                     /\ question.d = entry[question.oid.k]
                     /\ question.oid \notin Oids(cs.questions_asked)
                     /\ Len(current_session'[m].available_questions) = Len(entry) - 1
                     /\ Values(current_session'[m].available_questions) \subseteq Range(entry)
                     /\ current_session'[m].current_index = cs.current_index + 1]_vars

\* a question drawn from a refilled pool
C12_Witness ==
    /\ ret["A"].res = "question"
    /\ ret["A"].q.oid.src = "bank"
    /\ ret["A"].q.oid.gen = current_session["A"].copies - 1
    /\ current_session["A"].copies >= 2
    /\ current_session["A"].available_questions # <<>>

\* C13: for every active session get_progress returns, with current_question
\* = current_index, total_questions = num_questions and progress_percentage =
\* current_index / num_questions * 100, which lies in [0, 100]; a call of
\* get_next_question that serves a follow-up leaves the three as they were.
ProgressOfSession(m) ==
    LET cs == current_session[m]
        progress == get_progress(m)
    IN  cs.active =>
          /\ progress.res = "progress"
          /\ progress.current_question = cs.current_index
          /\ progress.total_questions = cs.num_questions
          /\ progress.progress_percentage.d > 0
          /\ progress.progress_percentage.n * cs.num_questions
                = cs.current_index * 100 * progress.progress_percentage.d
          /\ progress.progress_percentage.n >= 0
          /\ progress.progress_percentage.n <= 100 * progress.progress_percentage.d

FollowUpKeepsProgress(m) ==
    (get_next_question(m) /\ ret'[m].res = "follow_up") =>
        /\ get_progress(m)'.current_question = get_progress(m).current_question
        /\ get_progress(m)'.total_questions = get_progress(m).total_questions
        /\ get_progress(m)'.progress_percentage = get_progress(m).progress_percentage

Returned == evaluated.result.strategy # "none"

ReturnedLocally == evaluated.result.strategy = "local"

Score(key) ==
    CASE key = "technical_accuracy" -> evaluated.result.technical_accuracy
      [] key = "communication_skills" -> evaluated.result.communication_skills
      [] key = "sentiment_tone" -> evaluated.result.sentiment_tone
      [] key = "completeness" -> evaluated.result.completeness
      [] key = "overall_score" -> evaluated.result.overall_score

\* C14: every result of evaluate_answer, of the local and of the external
\* strategy, holds technical_accuracy, communication_skills, sentiment_tone,
\* completeness and overall_score, each between 0 and 100 (0 and 1000 tenths).
C14_ScoresInRange ==
    Returned =>
        /\ ScoreKeys \subseteq evaluated.result.keys
        /\ \A key \in ScoreKeys : 0 <= Score(key) /\ Score(key) <= 1000

\* C15: in every result, pass and grade follow from the reported
\* overall_score: pass iff it is at least 60, and the grade is the one of the
\* thresholds 90, 80, 70, 60 applied to it.
C15_GradeFromReported ==
    Returned =>
        /\ evaluated.result.pass <=> evaluated.result.overall_score >= 600
        /\ evaluated.result.grade =
              (IF evaluated.result.overall_score >= 900 THEN "A (Excellent)"
               ELSE IF evaluated.result.overall_score >= 800 THEN "B (Very Good)"
               ELSE IF evaluated.result.overall_score >= 700 THEN "C (Good)"
               ELSE IF evaluated.result.overall_score >= 600 THEN "D (Satisfactory)"
               ELSE "F (Needs Improvement)")

\* C16: for an answer that holds a phrase of the technical-accuracy non-answer
\* list, the local strategy returns technical_accuracy <= 10 and
\* completeness <= 15.
C16_NonAnswerScoresLow ==
    (ReturnedLocally
     /\ any_in(Text(evaluated.user_answer), technical_non_answer_phrases)) =>
        /\ evaluated.result.technical_accuracy <= 100
        /\ evaluated.result.completeness <= 150

\* C17: for an answer of no words, whatever the question, the mode and the
\* difficulty, evaluate_answer returns an evaluation with every key and an
\* overall_score of at most 20.
C17_EmptyAnswerScoresLow ==
    (Returned /\ evaluated.user_answer = <<>>) =>
        /\ ScoreKeys \cup {"feedback", "grade", "pass"} \subseteq evaluated.result.keys
        /\ evaluated.result.overall_score <= 200

\* The local strategy alone keeps the bound of C17.
EmptyAnswerScoresLowLocally ==
    (ReturnedLocally /\ evaluated.user_answer = <<>>) =>
        /\ ScoreKeys \cup {"feedback", "grade", "pass"} \subseteq evaluated.result.keys
        /\ evaluated.result.overall_score <= 200

\* The result of the local path of the evaluator for the arguments of the call
LocalResult ==
    evaluate_locally(evaluated.user_answer, evaluated.question, evaluated.interview_mode,
                     IF evaluator.model THEN libraries.similarity ELSE NoSimilarity,
                     libraries.sentiment)

\* the ways the external model's answer can fail: an exception or a timeout,
\* a text that is no JSON, and JSON of another structure than asked for
FailedOutcomes == {"raise", "unparsable", "no overall_score", "overall_score only"}

\* C18: with the external strategy enabled, a call whose external answer
\* fails in any way returns the result of the local strategy for the same
\* arguments; the evaluator stays enabled, and every call on it asks the
\* external model.
C18_FailureFallsBack ==
    /\ (Returned /\ evaluated.gemini \in FailedOutcomes) => evaluated.result = LocalResult
    /\ (Returned /\ evaluated.gemini # NotAttempted) => evaluator.use_llm
    /\ (Returned /\ evaluator.use_llm) => evaluated.gemini # NotAttempted

\* the weights of the claim, in hundredths
ClaimedWeights(mode) ==
    CASE mode = "Technical" -> <<40, 25, 15, 20>>
      [] mode = "HR" -> <<10, 35, 30, 25>>
      [] OTHER -> <<30, 30, 20, 20>>

\* C19: in the local strategy the overall score is the sum of the technical,
\* communication, sentiment and completeness scores weighted by (0.40, 0.25,
\* 0.15, 0.20) in mode Technical, (0.10, 0.35, 0.30, 0.25) in mode HR and
\* (0.30, 0.30, 0.20, 0.20) in every other mode; the weights add up to 1, and
\* the overall score lies between the least and the greatest sub-score, as
\* computed and as reported.
C19_WeightedSum ==
    ReturnedLocally =>
        LET w == ClaimedWeights(evaluated.interview_mode)
            raw == evaluated.result.raw
            subs == {raw.technical, raw.communication, raw.sentiment, raw.completeness}
            reported == {Score(key) : key \in ScoreKeys \ {"overall_score"}}
        IN  /\ w[1] + w[2] + w[3] + w[4] = 100
            /\ raw.overall = raw.technical * w[1] + raw.communication * w[2]
                              + raw.sentiment * w[3] + raw.completeness * w[4]
            /\ \E lo \in subs, hi \in subs :
                   lo * 100 <= raw.overall /\ raw.overall <= hi * 100
            /\ evaluated.result.overall_score = round(raw.overall, 10000)
            /\ \E lo \in reported, hi \in reported :
                   lo <= evaluated.result.overall_score
                   /\ evaluated.result.overall_score <= hi

\* a local result in a mode of the default weights, with the overall score
\* strictly between two sub-scores
C19_Witness ==
    /\ ReturnedLocally
    /\ evaluated.interview_mode = "Behavioral"
    /\ evaluated.result.technical_accuracy < evaluated.result.overall_score
    /\ evaluated.result.overall_score < evaluated.result.communication_skills
    /\ evaluated.result.pass

\* C20: for a question with an ideal_answer, evaluating that text as the
\* answer gives technical_accuracy >= 80 and completeness >= 80.
C20_IdealAnswerScoresHigh ==
    (ReturnedLocally
     /\ "ideal_answer" \in evaluated.question.has
     /\ evaluated.user_answer = evaluated.question.ideal_answer) =>
        /\ evaluated.result.technical_accuracy >= 800
        /\ evaluated.result.completeness >= 800


----------------------------------------------------------------------------
\* Properties of the sessions store

\* The session the store object holds under an id that _get_session finds
StoredSession(session_id) ==
    database.sessions[_get_session(database.sessions, session_id)]

Scores(session) ==
    [k \in 1..Len(session.questions) |-> session.questions[k].evaluation.overall_score]

\* The quotient `score` is the mean of the overall_score of the responses
IsMean(score, session) ==
    score.n * Len(session.questions) = sum(Scores(session)) * score.d

\* C21: after end_session(id) on a session the store holds, a session with
\* n >= 1 responses has status 'completed', an end_time that is not None and
\* overall_score equal to the mean of the overall_score of its n evaluations;
\* with n = 0 overall_score is still 0.
C21_EndSessionScore ==
    (database.alive /\ called.op = "end_session" /\ called.found) =>
        LET session == StoredSession(called.session_id)
        IN  IF Len(session.questions) >= 1
            THEN /\ session.status = "completed"
                 /\ session.end_time # "None"
                 /\ IsMean(session.overall_score, session)
            ELSE session.overall_score.n = 0

\* end_session has returned on a session with the two responses scored 80
\* and 60, and the session holds 140 / 2
C21_Witness ==
    /\ database.alive /\ called.op = "end_session" /\ called.found
    /\ Scores(StoredSession(called.session_id)) = <<80, 60>>
    /\ StoredSession(called.session_id).overall_score = Quotient(140, 2)
    /\ StoredSession(called.session_id).status = "completed"

\* The stored entry holds the question, the answer and the evaluation of
\* the question_data
HoldsResponse(entry, question_data) ==
    /\ entry.question = question_data.question
    /\ entry.answer = question_data.answer
    /\ entry.evaluation = question_data.evaluation

\* One call on a store object that lives through it keeps the round trip:
\* create_session returns the id of a session the object holds, with no
\* response; a session the object holds stays held, add_question_response on
\* its id appends the response to its questions and no other call changes its
\* questions; get_session on its id returns it.
RoundTripStep ==
    /\ called'.op = "create_session" =>
          /\ called'.res = called'.session_id
          /\ _get_session(database'.sessions, called'.session_id) # 0
          /\ database'.sessions[_get_session(database'.sessions,
                                             called'.session_id)].questions = <<>>
    /\ \A id \in SessionIds :
          _get_session(database.sessions, id) # 0 =>
              LET before == StoredSession(id).questions
                  after == database'.sessions[_get_session(database'.sessions,
                                                           id)].questions
              IN  /\ _get_session(database'.sessions, id) # 0
                  /\ IF called'.op = "add_question_response" /\ called'.session_id = id
                     THEN /\ Len(after) = Len(before) + 1
                          /\ SubSeq(after, 1, Len(before)) = before
                          /\ HoldsResponse(after[Len(after)], called'.data)
                     ELSE after = before
                  /\ (called'.op = "get_session" /\ called'.session_id = id) =>
                         /\ called'.res # "None"
                         /\ called'.session = StoredSession(id)

\* C22: for every id create_session returns, after k add_question_response
\* calls on the id and an end_session, get_session returns a session (not
\* None) whose questions are exactly the k responses in call order: every
\* call on a living store object keeps the round trip.
C22_StoredRoundTrip ==
    [][(database.alive /\ database'.alive) => RoundTripStep]_vars

\* The same over the JSON files alone (use_mongo is False)
RoundTripOverFiles ==
    [][(database.alive /\ database'.alive /\ ~database.use_mongo) => RoundTripStep]_vars

\* The sessions file after the step is what it was before, or the whole
\* document of the list the call was writing
PreviousOrNew ==
    \/ files'.sessions_file = files.sessions_file
    \/ files'.sessions_file = Document(called'.doc)

\* C23: when the process is killed at a step of a write of the sessions
\* file, the file holds its complete previous contents or the complete new
\* ones afterwards, never a cut-off document; so too for the first write, the
\* one that creates the file.
C23_CrashAtomic ==
    [][(called'.res = "killed" /\ called'.op # "kill") => PreviousOrNew]_vars

\* The same for the writes of _save_database alone, killed or failed
SaveAtomic ==
    [][called'.op \in {"create_session", "add_question_response", "append_transcript",
                       "end_session"} => PreviousOrNew]_vars

\* The session of the call just made holds the update of the call
UpdateKept ==
    LET i == _get_session(database.sessions, called'.session_id)
        before == database.sessions[i]
        after == database'.sessions[i]
    IN  CASE called'.op = "add_question_response" ->
                /\ Len(after.questions) = Len(before.questions) + 1
                /\ HoldsResponse(after.questions[Len(after.questions)], called'.data)
          [] called'.op = "append_transcript" ->
                /\ Len(after.transcript) = Len(before.transcript) + 1
                /\ after.transcript[Len(after.transcript)].text \in
                       {entry.text : entry \in TranscriptEntries}
          [] OTHER ->
                /\ after.status = "completed"
                /\ after.end_time # "None"
                /\ IsMean(after.overall_score, after)

\* C24: when the write of add_question_response, append_transcript or
\* end_session fails, the call raises nothing, the session in memory keeps the
\* update, and the flow manager and the evaluator are as they were, so that
\* get_next_question and evaluate_answer go on as after a write that was done.
C24_WriteFailureTolerated ==
    [][(/\ called'.op \in {"add_question_response", "append_transcript", "end_session"}
        /\ called'.write \in Failures)
       => /\ called'.res \notin {"raise", "killed"}
          /\ database'.alive
          /\ UpdateKept
          /\ UNCHANGED <<flow_vars, evaluator_vars>>]_vars

\* add_question_response has returned after a failed write: the session in
\* memory holds the response, the sessions file does not
C24_Witness ==
    /\ database.alive
    /\ called.op = "add_question_response" /\ called.write \in Failures
    /\ called.res = "None"
    /\ Len(StoredSession(called.session_id).questions) = 2
    /\ files.sessions_file.complete
    /\ \E i \in 1..Len(files.sessions_file.sessions) :
          /\ files.sessions_file.sessions[i].session_id = called.session_id
          /\ Len(files.sessions_file.sessions[i].questions) = 1

\* C30: in every state of the store, each session with status 'completed'
\* has overall_score equal to the mean of the overall_score of the responses
\* it holds, 0 when it holds none, whatever the order of the create_session,
\* add_question_response and end_session calls.
C30_CompletedScoreIsMean ==
    \A i \in 1..Len(database.sessions) :
        LET session == database.sessions[i]
        IN  session.status = "completed" =>
                IF session.questions = <<>>
                THEN session.overall_score.n = 0
                ELSE IsMean(session.overall_score, session)

----------------------------------------------------------------------------
\* Properties of the feedback

\* C25: whenever the answer holds a phrase of the non-answer list (a phrase
\* that makes technical accuracy short-circuit), the feedback of the local
\* strategy holds the non-answer weakness and its two suggestions.
C25_NonAnswerFeedback ==
    (ReturnedLocally
     /\ any_in(Text(evaluated.user_answer), technical_non_answer_phrases)) =>
        /\ "Admitted lack of knowledge or provided no substantive answer"
              \in Range(evaluated.result.feedback.weaknesses)
        /\ { "Even if unsure, try to provide a partial answer or related knowledge",
             "Explain your thought process or mention related concepts you do know" }
              \subseteq Range(evaluated.result.feedback.suggestions)

\* The same for the phrases of the list of _generate_feedback
NonAnswerFeedbackOfOwnList ==
    (ReturnedLocally
     /\ any_in(Text(evaluated.user_answer), feedback_non_answer_phrases)) =>
        /\ "Admitted lack of knowledge or provided no substantive answer"
              \in Range(evaluated.result.feedback.weaknesses)
        /\ { "Even if unsure, try to provide a partial answer or related knowledge",
             "Explain your thought process or mention related concepts you do know" }
              \subseteq Range(evaluated.result.feedback.suggestions)

----------------------------------------------------------------------------
\* Properties of the follow-up and of the draw

LastAsked(m) == current_session[m].questions_asked[Len(current_session[m].questions_asked)]

\* A get_next_question call on m with a follow-up pending and a question drawn
PendingFollowUpCall(m) ==
    /\ current_session[m].active
    /\ current_session[m].follow_up_needed
    /\ current_session[m].questions_asked # <<>>
    /\ NextQuestionCall(m)

\* What C26 says of the follow-up returned: a text of the external model or
\* one of the three templates of the recorded reason, and the text of the last
\* question drawn as original_question.
FollowUpOfLastQuestion(m) ==
    /\ ret'[m].res = "follow_up"
    /\ \/ llm_model[m] /\ ret'[m].fu.question = "<text of the external model>"
       \/ ret'[m].fu.question \in follow_ups(current_session[m].follow_up_reason)
    /\ ret'[m].fu.original_question = LastAsked(m).d.question

\* C26: with a follow-up pending and a question drawn, get_next_question
\* returns a follow-up and raises nothing, with or without the external model
\* and for every question the pool can hold, the forced ones without keywords
\* included; the text is one of the three templates of the recorded reason
\* when it is not the external model's, and original_question is the text of
\* the last question drawn.
C26_FollowUpNeverRaises ==
    [][\A m \in Managers : PendingFollowUpCall(m) => FollowUpOfLastQuestion(m)]_vars

\* The same for a last question that has a keywords field
FollowUpWithKeywords ==
    [][\A m \in Managers :
        (PendingFollowUpCall(m) /\ LastAsked(m).d.has_keywords)
            => FollowUpOfLastQuestion(m)]_vars


\* The pool a draw of m is made from: the pool of the session, or the fresh
\* copies of the bank entry when that pool is empty
DrawnFrom(m) ==
    IF available_questions(m) = <<>>
    THEN _get_questions_for_session(m, current_session[m].mode,
                                    current_session[m].difficulty,
                                    current_session[m].copies)
    ELSE available_questions(m)

\* The two outcomes of a get_next_question call on m
DrawnOrUntouched(m) ==
    LET cs == current_session[m]
        question == ret'[m].q
    IN  IF ret'[m].res = "question"
        THEN /\ cs.active
             /\ Len(available_questions(m)') = Len(DrawnFrom(m)) - 1
             /\ \A d \in Values(DrawnFrom(m)) :
                    Count(available_questions(m)', d) =
                        Count(DrawnFrom(m), d) - (IF d = question.d THEN 1 ELSE 0)
             /\ current_session'[m].questions_asked = Append(cs.questions_asked, question)
             /\ current_session'[m].current_index = cs.current_index + 1
        ELSE /\ ret'[m].res \in {"follow_up", "None", "raise"}
             /\ current_session'[m].questions_asked = cs.questions_asked
             /\ current_session'[m].current_index = cs.current_index

\* C27: a get_next_question call either returns a question, and then the pool
\* it was drawn from has lost one question equal to it, questions_asked has
\* gained it and current_index has grown by one, or it returns a follow-up or
\* null (or raises), and then questions_asked and current_index are as before.
C27_DrawAllOrNothing ==
    [][GetNextQuestion => DrawnOrUntouched("A")]_vars

C27_Witness ==
    /\ ret["A"].op = "get_next_question"
    /\ ret["A"].res = "question"
    /\ current_session["A"].current_index = 3
    /\ current_session["A"].questions_asked[3] = ret["A"].q
    /\ current_session["A"].copies = 2
    /\ Len(available_questions("A")) = 1


\* The get_next_question calls a session of m can still answer with a question
\* or a follow-up: one per question left to draw and one for a pending
\* follow-up, at most num_questions - current_index + 1.
CallsLeft(m) ==
    (current_session[m].num_questions - current_session[m].current_index)
        + (IF current_session[m].follow_up_needed THEN 1 ELSE 0)

\* The states in which get_next_question returns null: no session, or no
\* follow-up to serve and either the target reached or nothing left to draw
ReturnsNull(m) ==
    \/ ~current_session[m].active
    \/ /\ ~current_session[m].follow_up_needed \/ current_session[m].questions_asked = <<>>
       /\ session_complete(current_session[m]) \/ DrawnFrom(m) = <<>>

\* A get_next_question call on m that does not return null uses up one of the
\* calls left, and with none left the call returns null
UsesOneCall(m) ==
    /\ ret'[m].res # "None" => CallsLeft(m)' = CallsLeft(m) - 1
    /\ CallsLeft(m) = 0 => ret'[m].res = "None"
    /\ ReturnsNull(m) => ret'[m].res = "None"

\* A step that is no start_session and no should_ask_follow_up returning true
\* adds no call and leaves a session that returns null one that returns null
AddsNoCall(m) ==
    /\ CallsLeft(m)' <= CallsLeft(m)
    /\ ReturnsNull(m) => ReturnsNull(m)'

\* C28: when no should_ask_follow_up call returns true any more, the session
\* ends: after at most num_questions - current_index + 1 further
\* get_next_question calls the result is null, and it stays null until
\* start_session is called again.
C28_SessionTerminates ==
    /\ [][GetNextQuestion => UsesOneCall("A")]_vars
    /\ [][(~StartSession /\ ~(ShouldAskFollowUp /\ ret'["A"].res = "True"))
            => AddsNoCall("A")]_vars

\* The same for the calls made while the last question drawn has a keywords
\* field or no follow-up is pending
TerminatesWithKeywords ==
    /\ [][(/\ GetNextQuestion
           /\ \/ ~current_session["A"].follow_up_needed
              \/ current_session["A"].questions_asked = <<>>
              \/ LastAsked("A").d.has_keywords)
            => UsesOneCall("A")]_vars
    /\ [][(~StartSession /\ ~(ShouldAskFollowUp /\ ret'["A"].res = "True"))
            => AddsNoCall("A")]_vars


\* C29: should_ask_follow_up changes nothing but follow_up_needed and
\* follow_up_reason, and a call that returns false changes nothing at all: the
\* flag and the reason of an earlier call, the pool, questions_asked and
\* current_index are as before.
C29_FollowUpFrame ==
    [][ShouldAskFollowUp =>
        /\ [current_session'["A"] EXCEPT
               !.follow_up_needed = current_session["A"].follow_up_needed,
               !.follow_up_reason = current_session["A"].follow_up_reason]
             = current_session["A"]
        /\ available_questions("A")' = available_questions("A")
        /\ <<llm_model, custom_qs, created_qs>>' = <<llm_model, custom_qs, created_qs>>
        /\ ret'["A"].res = "False" => current_session' = current_session]_vars

C29_Witness ==
    /\ ret["A"].op = "should_ask_follow_up"
    /\ ret["A"].res = "False"
    /\ current_session["A"].follow_up_needed
    /\ current_session["A"].follow_up_reason = "too_short"
    /\ current_session["A"].current_index = 1
    /\ available_questions("A") # <<>>

====
